---- MODULE Spec2Model ----
(***************************************************************************)
(* Model of the use-async-task engine: the keyed state store (store.ts)    *)
(* and the task controller (useAsyncTask.ts, the revision that carries an  *)
(* AbortController).  One controller is one usage of the hook.             *)
(*                                                                         *)
(* JavaScript values are modelled as integers: null is Null, a missing     *)
(* (undefined) field is Undef, a result or an error is a positive code     *)
(* that names the invocation (and the attempt) which produced it.          *)
(***************************************************************************)
EXTENDS Integers, FiniteSets, Sequences, TLC

----------------------------------------------------------------------------
(* Values *)

Null == -1
Undef == -2
NoKey == ""
Pending == -3
Rejected == -4

\* bounds of the model
MaxOps == 3

\* the options the controllers are configured with
RetryOpts == {0, 1, 2}
CacheTimeOpts == {0, 1}

Ctrl == {1, 2}
KeyConfigs == {(1 :> "K1") @@ (2 :> "K1"), (1 :> NoKey) @@ (2 :> "K1")}
Keys == {"K1"}
ArgVals == {1}

NoAC == <<0, 0>>

\* the empty argument list of an automatic execute
NoArgs == 0
\* pollingTimerRef.current = null
NoTimer == 0
\* the positive polling interval of the model
PollEvery == 1

\* the value an invocation of the action resolves with
ResultOf(c, g) == 100 * c + 10 * g
\* the error the (attempt+1)-th call of the action of an invocation rejects with
ErrorOf(c, g, attempt) == 1000 + 100 * c + 10 * g + attempt

Absent(x) == x \in {Null, Undef}

\* options.taskKey given as a function of the arguments, such as
\* (id) => `user-${id}`, and what that function returns for an argument
KeyFunction == "fn"
KeyFn(x) == IF x = Undef THEN "KU" ELSE IF x = 1 THEN "K1" ELSE "K2"

\* the key useAsyncTask resolves from options.taskKey: a function is called
\* without arguments
ResolveKey(tk) ==
    IF tk = NoKey THEN NoKey
    ELSE IF tk = KeyFunction THEN KeyFn(Undef)
    ELSE tk
\* JavaScript truthiness of a number-or-null value
Falsy(x) == x \in {Null, Undef, 0}

----------------------------------------------------------------------------
(* State *)

VARIABLES
    globalStore,        \* store.ts: Map key -> TaskState
    listeners,          \* store.ts: Map key -> Set of listeners (one per controller)
    now,                \* Date.now()
    phase,              \* per controller: "new", "mounted", "unmounted"
    taskKey,            \* options.taskKey
    cacheTime,          \* options.cacheTime
    maxRetries,         \* options.maxRetries
    resolvedTaskKey,    \* useState resolvedTaskKey
    localState,         \* useState localState
    requestIdRef,
    abortControllerRef, \* id of the current AbortController, or NoAC
    aborted,            \* the AbortControllers whose signal is aborted
    pollingTimerRef,
    unmountedRef,
    lastArgsRef,
    isSyncingRef,
    invs,               \* the invocations started by cache-miss executes
    lastCall,           \* what the last execute call on a controller did
    resetAt,            \* the generation the last reset() of a controller left
    immediate,          \* options.immediate
    pollingInterval,    \* options.pollingInterval
    renders,            \* number of renders with changed options so far
    timers,             \* the armed timeouts: <<controller, handle>>
    timerSeq,           \* per controller: number of timeouts created so far
    startedBy,          \* the invocations started by an effect or by poll()
    calls,              \* per listener of a direct store call: what it received
    unsubs,             \* the unsubscribe functions subscribe has returned
    storeOps,           \* number of direct store calls so far
    lastStoreCall,      \* the last direct store call
    notifying,          \* the notifyListeners loop in progress, if any
    probe               \* input and output of a direct call of isCacheValid

vars == <<globalStore, listeners, now, phase, taskKey, cacheTime, maxRetries,
          resolvedTaskKey, localState, requestIdRef, abortControllerRef,
          aborted, pollingTimerRef, unmountedRef, lastArgsRef, isSyncingRef,
          invs, lastCall, resetAt, immediate, pollingInterval, renders,
          timers, timerSeq, startedBy, calls, unsubs, storeOps,
          lastStoreCall, notifying, probe>>

ctlVars == <<globalStore, listeners, now, phase, taskKey, cacheTime, maxRetries,
             resolvedTaskKey, localState, requestIdRef, abortControllerRef,
             aborted, pollingTimerRef, unmountedRef, lastArgsRef, isSyncingRef,
             invs, lastCall, resetAt, immediate, pollingInterval, renders,
             timers, timerSeq, startedBy, calls, unsubs, storeOps,
             lastStoreCall, notifying>>

optVars == <<immediate, pollingInterval, renders>>
timerVars == <<timers, timerSeq>>
storeVars == <<calls, unsubs, storeOps, lastStoreCall, notifying>>

----------------------------------------------------------------------------
(* store.ts *)

AsyncFields == {"data", "loading", "error", "retryCount", "lastUpdated"}
TaskFields == AsyncFields \cup {"requestId"}

createInitialState(requestId) ==
    [data |-> Null, loading |-> FALSE, error |-> Null, retryCount |-> 0,
     lastUpdated |-> Null, requestId |-> requestId]

\* the AsyncState fields of a state object (notifyListeners strips requestId)
AsyncOf(s) ==
    [data |-> s.data, loading |-> s.loading, error |-> s.error,
     retryCount |-> s.retryCount, lastUpdated |-> s.lastUpdated]

InitialAsyncState == AsyncOf(createInitialState(0))

\* { ...prev, ...partial }
Merge(prev, partial) ==
    [f \in DOMAIN prev |-> IF f \in DOMAIN partial THEN partial[f] ELSE prev[f]]

\* an object literal read as a TaskState: the fields it lacks are undefined
AsTaskState(obj) ==
    [f \in TaskFields |-> IF f \in DOMAIN obj THEN obj[f] ELSE Undef]

HasState(store, key) == key \in DOMAIN store

\* (variant) an entry tagged with a higher generation is not overwritten
StorePut_NewerOnly(store, key, state) ==
    IF key \in DOMAIN store /\ store[key].requestId > state.requestId
    THEN store
    ELSE [k \in (DOMAIN store) \cup {key} |->
            IF k = key THEN state ELSE store[k]]

\* globalStore.set(key, state)
StorePut(store, key, state) ==
    [k \in (DOMAIN store) \cup {key} |-> IF k = key THEN state ELSE store[k]]

\* (variant) the entry is kept
StoreDelete_Keep(store, key) == store

\* globalStore.delete(key)
StoreDelete(store, key) ==
    [k \in (DOMAIN store) \ {key} |-> store[k]]

\* (variant) no listener is called
notifyListeners_None(local, key, state) == local

\* notifyListeners: every listener of key (the syncState of a controller)
\* replaces the local state of its controller unless it is unmounted
notifyListeners(local, key, state) ==
    [c \in Ctrl |->
        IF key \in DOMAIN listeners /\ c \in listeners[key] /\ ~unmountedRef[c]
        THEN AsyncOf(state)
        ELSE local[c]]

isCacheValid(hasState, lastUpdated, ct, t) ==
    IF ~hasState \/ Falsy(lastUpdated) \/ ct <= 0
    THEN FALSE
    ELSE t - lastUpdated < ct

\* listeners after subscribe(key, listener of c)
Subscribed(lsn, key, c) ==
    [k \in (DOMAIN lsn) \cup {key} |->
        IF k = key
        THEN (IF k \in DOMAIN lsn THEN lsn[k] ELSE {}) \cup {c}
        ELSE lsn[k]]

\* listeners after the unsubscribe function of (key, listener of c)
Unsubscribed(lsn, key, c) ==
    IF key \notin DOMAIN lsn
    THEN lsn
    ELSE IF lsn[key] \ {c} = {}
         THEN [k \in (DOMAIN lsn) \ {key} |-> lsn[k]]
         ELSE [lsn EXCEPT ![key] = @ \ {c}]

----------------------------------------------------------------------------
(* useAsyncTask.ts *)

\* updateLocalState(partial) of controller c
updateLocalState(local, c, partial) ==
    IF ~unmountedRef[c] /\ ~isSyncingRef[c]
    THEN [local EXCEPT ![c] = Merge(@, partial)]
    ELSE local

\* generations allocated so far by all controllers together
RECURSIVE SumReq(_)
SumReq(S) ==
    IF S = {} THEN 0
    ELSE LET c == CHOOSE x \in S : TRUE IN requestIdRef[c] + SumReq(S \ {c})

\* the events so far that the model counts against its bound: the calls
\* that allocated a generation, the unmounts, the ticks of the clock and
\* the renders with changed options
OpsDone ==
    SumReq(Ctrl) + Cardinality({c \in Ctrl : phase[c] = "unmounted"})
        + (now - 1) + renders

\* the model stops producing such events at the bound
CanAllocate(c) == OpsDone < MaxOps

InFlight(id) == id \in DOMAIN invs /\ invs[id].status = "pending"

EmptyFn == [x \in {} |-> 0]

NoCall == [op |-> "none", ret |-> Undef]

\* no notifyListeners loop is running
NoNotify ==
    [active |-> FALSE, key |-> NoKey, state |-> InitialAsyncState,
     subs |-> {}, todo |-> {}, before |-> <<>>]

\* the state after construction of controllers configured with one of the
\* task key options in keyConfigs
InitWith(keyConfigs) ==
    /\ globalStore = EmptyFn
    /\ listeners = EmptyFn
    /\ now = 1
    /\ phase = [c \in Ctrl |-> "new"]
    /\ taskKey \in keyConfigs
    /\ cacheTime \in CacheTimeOpts
    /\ maxRetries \in RetryOpts
    /\ resolvedTaskKey = [c \in Ctrl |-> ResolveKey(taskKey[c])]
    /\ localState = [c \in Ctrl |-> InitialAsyncState]
    /\ requestIdRef = [c \in Ctrl |-> 0]
    /\ abortControllerRef = [c \in Ctrl |-> NoAC]
    /\ aborted = {}
    /\ pollingTimerRef = [c \in Ctrl |-> NoTimer]
    /\ unmountedRef = [c \in Ctrl |-> FALSE]
    /\ lastArgsRef = [c \in Ctrl |-> Null]
    /\ isSyncingRef = [c \in Ctrl |-> FALSE]
    /\ invs = EmptyFn
    /\ lastCall = [c \in Ctrl |-> NoCall]
    /\ resetAt = [c \in Ctrl |-> 0]
    /\ renders = 0
    /\ timers = {}
    /\ timerSeq = [c \in Ctrl |-> 0]
    /\ startedBy = EmptyFn
    /\ calls = [l \in Ctrl |-> << >>]
    /\ unsubs = << >>
    /\ storeOps = 0
    /\ lastStoreCall = [op |-> "none", key |-> NoKey, flag |-> FALSE]
    /\ notifying = NoNotify

InitCtl == InitWith(KeyConfigs)

ProbeIdle == [hasState |-> FALSE, lastUpdated |-> Null, cacheTime |-> 0,
              now |-> 0, out |-> "idle"]

\* no controller runs automatically
NoAuto ==
    /\ immediate = [c \in Ctrl |-> FALSE]
    /\ pollingInterval = [c \in Ctrl |-> 0]

Init == InitCtl /\ NoAuto /\ probe = ProbeIdle

\* first render and its effects: the subscription effect pulls the entry of
\* the resolved key, if any, and subscribes syncState
Mount(c) ==
    /\ phase[c] = "new"
    /\ ~immediate[c]
    /\ phase' = [phase EXCEPT ![c] = "mounted"]
    /\ LET key == resolvedTaskKey[c] IN
        IF key # NoKey
        THEN /\ localState' =
                    IF HasState(globalStore, key)
                    THEN [localState EXCEPT ![c] = AsyncOf(globalStore[key])]
                    ELSE localState
             /\ listeners' = Subscribed(listeners, key, c)
        ELSE UNCHANGED <<localState, listeners>>
    /\ UNCHANGED <<globalStore, now, taskKey, cacheTime, maxRetries,
                   resolvedTaskKey, requestIdRef, abortControllerRef, aborted,
                   pollingTimerRef, unmountedRef, lastArgsRef, isSyncingRef,
                   invs, lastCall, probe>>
    /\ UNCHANGED <<resetAt, optVars, timerVars, startedBy>>
    /\ UNCHANGED storeVars

\* (variant) the cache is never consulted
CacheHit_Never(c) == FALSE

\* the cache check of execute: a key, a positive cacheTime and a valid entry
CacheHit(c) ==
    LET key == resolvedTaskKey[c] IN
        /\ key # NoKey
        /\ cacheTime > 0
        /\ HasState(globalStore, key)
        /\ isCacheValid(TRUE, globalStore[key].lastUpdated, cacheTime, now)

\* the record of an invocation: the values captured by the closure of
\* performAction (key, args, retryCount), the state of the promise execute
\* returned (status, ret), and what the model remembers about it: the
\* number of calls of the action, the last error, whether cancel() was
\* called on it, whether it followed a reset(), the data at its start,
\* and (once done) how it ended and whether a later one had ended before
NewInvocation(c, key, a) ==
    [key |-> key, args |-> a, retryCount |-> 0, calls |-> 1,
     status |-> "pending", ret |-> Pending, outcome |-> "none",
     err |-> Null, cancelled |-> FALSE, data0 |-> localState[c].data,
     afterReset |-> lastCall[c].op = "reset", late |-> FALSE]

\* (variant) the signal of the current AbortController is never aborted
AbortCurrent_Never(c) == aborted

\* the aborted signals after abortControllerRef.current.abort(), which is
\* called only when the ref holds a controller
AbortCurrent(c) ==
    IF abortControllerRef[c] # NoAC
    THEN aborted \cup {abortControllerRef[c]}
    ELSE aborted

\* (variant) the loading entry starts from an initial state
LoadingEntry_Fresh(existing, g) ==
    [createInitialState(g) EXCEPT !.loading = TRUE]

\* { ...existing, loading: true, requestId: g }
LoadingEntry(existing, g) ==
    [existing EXCEPT !.loading = TRUE, !.requestId = g]

\* (variant) the generation is not incremented once it is positive
NextRequestId_Reuse(c) ==
    IF requestIdRef[c] = 0 THEN 1 ELSE requestIdRef[c]

\* ++requestIdRef.current
NextRequestId(c) == requestIdRef[c] + 1

\* the body of execute(a) up to the first await of performAction: the cache
\* check, or the abort of the previous request, the new generation, the
\* loading write and the first call of the action
ExecuteBody(c, a) ==
    /\ lastArgsRef' = [lastArgsRef EXCEPT ![c] = a]
    /\ LET key == resolvedTaskKey[c] IN
        IF CacheHit(c)
        THEN LET cachedState == globalStore[key] IN
             /\ localState' = updateLocalState(localState, c,
                    [data |-> cachedState.data, loading |-> FALSE,
                     error |-> cachedState.error,
                     retryCount |-> cachedState.retryCount,
                     lastUpdated |-> cachedState.lastUpdated])
             /\ lastCall' = [lastCall EXCEPT ![c] =
                                [op |-> "hit", ret |-> cachedState.data]]
             /\ UNCHANGED <<globalStore, requestIdRef, abortControllerRef,
                            aborted, invs>>
        ELSE LET g == NextRequestId(c)
                 id == <<c, g>>
                 local1 == updateLocalState(localState, c, [loading |-> TRUE])
                 existing == IF HasState(globalStore, key)
                             THEN globalStore[key]
                             ELSE createInitialState(0)
                 entry == LoadingEntry(existing, g)
             IN
             /\ CanAllocate(c)
             /\ aborted' = AbortCurrent(c)
             /\ abortControllerRef' = [abortControllerRef EXCEPT ![c] = id]
             /\ requestIdRef' = [requestIdRef EXCEPT ![c] = g]
             /\ IF key # NoKey
                THEN /\ globalStore' = StorePut(globalStore, key, entry)
                     /\ localState' = notifyListeners(local1, key, entry)
                ELSE /\ globalStore' = globalStore
                     /\ localState' = local1
             /\ invs' = invs @@ (id :> NewInvocation(c, key, a))
             /\ lastCall' = [lastCall EXCEPT ![c] =
                                [op |-> "miss", ret |-> Undef]]

\* execute(a) called by the component
Execute(c, a) ==
    /\ phase[c] = "mounted"
    /\ ExecuteBody(c, a)
    /\ UNCHANGED <<listeners, now, phase, taskKey, cacheTime, maxRetries,
                   resolvedTaskKey, pollingTimerRef, unmountedRef,
                   isSyncingRef, resetAt, probe>>
    /\ UNCHANGED <<optVars, timerVars, startedBy>>
    /\ UNCHANGED storeVars

\* (variant) the commit writes the store whether or not there is a key
Commit_AlwaysStore(c, key, partial, g) ==
    LET local1 == updateLocalState(localState, c, partial)
        entry == AsTaskState(partial @@ [requestId |-> g])
    IN  /\ globalStore' = StorePut(globalStore, key, entry)
        /\ localState' = notifyListeners(local1, key, entry)

\* the commit of a terminal state: local state, then the store if keyed
Commit(c, key, partial, g) ==
    LET local1 == updateLocalState(localState, c, partial)
        entry == AsTaskState(partial @@ [requestId |-> g])
    IN  IF key # NoKey
        THEN /\ globalStore' = StorePut(globalStore, key, entry)
             /\ localState' = notifyListeners(local1, key, entry)
        ELSE /\ globalStore' = globalStore
             /\ localState' = local1

ClearAbortController(c, id) ==
    abortControllerRef' =
        IF abortControllerRef[c] = id
        THEN [abortControllerRef EXCEPT ![c] = NoAC]
        ELSE abortControllerRef

\* the promise of invocation id settles; the closure is dropped
Finish(id, outcome, ret) ==
    invs' = [invs EXCEPT ![id] =
                [key |-> invs[id].key, args |-> Null, retryCount |-> 0,
                 calls |-> 0, status |-> "done", ret |-> ret,
                 outcome |-> outcome, err |-> Null,
                 cancelled |-> invs[id].cancelled, data0 |-> Null,
                 afterReset |-> FALSE,
                 late |-> \E h \in (id[2] + 1) .. MaxOps + 1 :
                            /\ <<id[1], h>> \in DOMAIN invs
                            /\ invs[<<id[1], h>>].status = "done"]]

\* (variant) only the unmount check is left of the staleness checks
Expired_UnmountedOnly(c, g) == unmountedRef[c]

\* the staleness checks of performAction: unmounted, superseded generation,
\* or aborted signal
Expired(c, g) ==
    unmountedRef[c] \/ g # requestIdRef[c] \/ <<c, g>> \in aborted

\* (variant) the retry test is off by one
ShouldRetry_OffByOne(retryCount) == retryCount <= maxRetries

\* retryCount < maxRetries
ShouldRetry(retryCount) == retryCount < (IF maxRetries > 0 THEN maxRetries ELSE 0)

\* (variant) the catch block rethrows after the error commit
FailureReturn_Rethrow == Rejected

\* what performAction returns after the error commit: it falls off the end
\* of the catch block
FailureReturn == Undef

\* what performAction returns when it discards a result: a bare return
DiscardReturn == Undef

\* pollingTimerRef.current = setTimeout(poll, pollingInterval), the
\* timeouts in armed staying armed
SetTimeout(c, armed) ==
    LET h == timerSeq[c] + 1 IN
    /\ timers' = armed \cup {<<c, h>>}
    /\ timerSeq' = [timerSeq EXCEPT ![c] = h]
    /\ pollingTimerRef' = [pollingTimerRef EXCEPT ![c] = h]

\* the armed timeouts after clearTimeout(pollingTimerRef.current)
ClearTimeout(armed, c) == armed \ {<<c, pollingTimerRef[c]>>}

\* (variant) poll() does not arm another timeout
PollResume_Never(c, id, done) ==
    UNCHANGED <<timers, timerSeq, pollingTimerRef>>

\* poll() after its await of execute: the promise of invocation id has
\* settled (done) or not; the loop arms its next timeout unless the
\* controller is unmounted
PollResume(c, id, done) ==
    IF /\ done
       /\ id \in DOMAIN startedBy
       /\ startedBy[id] = "poll"
       /\ ~unmountedRef[c]
    THEN SetTimeout(c, timers)
    ELSE UNCHANGED <<timers, timerSeq, pollingTimerRef>>

\* (variant) the retry update also clears loading
retryUpdate_NotLoading(retryCount) ==
    [retryCount |-> retryCount + 1, loading |-> FALSE]

\* the partial state written before a retry: { retryCount: retryCount + 1 }
retryUpdate(retryCount) == [retryCount |-> retryCount + 1]

\* (variant) the success state leaves retryCount out
successState_KeepRetryCount(result, t) ==
    [data |-> result, loading |-> FALSE, error |-> Null, lastUpdated |-> t]

\* the successState literal of performAction
successState(result, t) ==
    [data |-> result, loading |-> FALSE, error |-> Null, retryCount |-> 0,
     lastUpdated |-> t]

\* (variant) the error state leaves loading out
errorState_StillLoading(err, retryCount, t) ==
    [error |-> err, retryCount |-> retryCount, lastUpdated |-> t]

\* the errorState literal of performAction
errorState(err, retryCount, t) ==
    [loading |-> FALSE, error |-> err, retryCount |-> retryCount,
     lastUpdated |-> t]

\* performAction after the await: the action of invocation <<c, g>>
\* resolved (ok) or rejected
Settle(c, g, ok) ==
    LET id == <<c, g>>
        inv == invs[id]
        key == inv.key
        err == ErrorOf(c, g, inv.retryCount)
    IN
    /\ InFlight(id)
    /\ IF Expired(c, g)
       THEN /\ Finish(id, "discarded", DiscardReturn)
            /\ UNCHANGED <<globalStore, localState, abortControllerRef>>
       ELSE IF ok
            THEN /\ Commit(c, key, successState(ResultOf(c, g), now), g)
                 /\ ClearAbortController(c, id)
                 /\ Finish(id, "success", ResultOf(c, g))
            ELSE IF ShouldRetry(inv.retryCount)
                 THEN /\ localState' = updateLocalState(localState, c,
                            retryUpdate(inv.retryCount))
                      /\ invs' = [invs EXCEPT ![id] =
                            [@ EXCEPT !.retryCount = @ + 1, !.calls = @ + 1,
                                      !.err = err]]
                      /\ UNCHANGED <<globalStore, abortControllerRef>>
                 ELSE /\ Commit(c, key,
                            errorState(err, inv.retryCount, now), g)
                      /\ ClearAbortController(c, id)
                      /\ Finish(id, "failure", FailureReturn)
    /\ PollResume(c, id,
            Expired(c, g) \/ ok \/ ~ShouldRetry(inv.retryCount))
    /\ UNCHANGED <<listeners, now, phase, taskKey, cacheTime, maxRetries,
                   resolvedTaskKey, requestIdRef, aborted, unmountedRef,
                   lastArgsRef, isSyncingRef, lastCall, resetAt, probe>>
    /\ UNCHANGED <<optVars, startedBy>>
    /\ UNCHANGED storeVars

\* (variant) cancel() only clears the poll timer
CancelBody_TimerOnly(c) ==
    /\ CanAllocate(c)
    /\ timers' = ClearTimeout(timers, c)
    /\ pollingTimerRef' = [pollingTimerRef EXCEPT ![c] = NoTimer]
    /\ invs' = [id \in DOMAIN invs |->
                    IF id[1] = c /\ invs[id].status = "pending"
                    THEN [invs[id] EXCEPT !.cancelled = TRUE]
                    ELSE invs[id]]
    /\ UNCHANGED <<requestIdRef, aborted, abortControllerRef>>

\* cancel(): bump the generation, abort and drop the AbortController,
\* clear the poll timer
CancelBody(c) ==
    /\ CanAllocate(c)
    /\ requestIdRef' = [requestIdRef EXCEPT ![c] = @ + 1]
    /\ aborted' = AbortCurrent(c)
    /\ abortControllerRef' = [abortControllerRef EXCEPT ![c] = NoAC]
    /\ timers' = ClearTimeout(timers, c)
    /\ pollingTimerRef' = [pollingTimerRef EXCEPT ![c] = NoTimer]
    /\ invs' = [id \in DOMAIN invs |->
                    IF id[1] = c /\ invs[id].status = "pending"
                    THEN [invs[id] EXCEPT !.cancelled = TRUE]
                    ELSE invs[id]]

\* (variant) cancel() also clears loading in the local state
Cancel_ClearsLoading(c) ==
    /\ phase[c] = "mounted"
    /\ CancelBody(c)
    /\ localState' = [localState EXCEPT ![c].loading = FALSE]
    /\ UNCHANGED <<globalStore, listeners, now, phase, taskKey, cacheTime,
                   maxRetries, resolvedTaskKey, unmountedRef,
                   lastArgsRef, isSyncingRef, lastCall, resetAt, probe>>
    /\ UNCHANGED <<optVars, timerSeq, startedBy>>
    /\ UNCHANGED storeVars

Cancel(c) ==
    /\ phase[c] = "mounted"
    /\ CancelBody(c)
    /\ UNCHANGED <<globalStore, listeners, now, phase, taskKey, cacheTime,
                   maxRetries, resolvedTaskKey, localState, unmountedRef,
                   lastArgsRef, isSyncingRef, lastCall, resetAt, probe>>
    /\ UNCHANGED <<optVars, timerSeq, startedBy>>
    /\ UNCHANGED storeVars

\* (variant) reset() does not overwrite the local state itself
Reset_NoLocal(c) ==
    LET key == resolvedTaskKey[c]
        local1 == IF key # NoKey
                  THEN notifyListeners(localState, key, createInitialState(0))
                  ELSE localState
    IN
    /\ phase[c] = "mounted"
    /\ CancelBody(c)
    /\ globalStore' = IF key # NoKey
                      THEN StoreDelete(globalStore, key)
                      ELSE globalStore
    /\ localState' = local1
    /\ lastArgsRef' = [lastArgsRef EXCEPT ![c] = Null]
    /\ lastCall' = [lastCall EXCEPT ![c] = [op |-> "reset", ret |-> Undef]]
    /\ resetAt' = [resetAt EXCEPT ![c] = requestIdRef[c] + 1]
    /\ UNCHANGED <<listeners, now, phase, taskKey, cacheTime, maxRetries,
                   resolvedTaskKey, unmountedRef, isSyncingRef, probe>>
    /\ UNCHANGED <<optVars, timerSeq, startedBy>>
    /\ UNCHANGED storeVars

\* reset(): cancel, deleteState of the resolved key, initial local state
Reset(c) ==
    LET key == resolvedTaskKey[c]
        local1 == IF key # NoKey
                  THEN notifyListeners(localState, key, createInitialState(0))
                  ELSE localState
    IN
    /\ phase[c] = "mounted"
    /\ CancelBody(c)
    /\ globalStore' = IF key # NoKey
                      THEN StoreDelete(globalStore, key)
                      ELSE globalStore
    /\ localState' = IF ~unmountedRef[c]
                     THEN [local1 EXCEPT ![c] = InitialAsyncState]
                     ELSE local1
    /\ lastArgsRef' = [lastArgsRef EXCEPT ![c] = Null]
    /\ lastCall' = [lastCall EXCEPT ![c] = [op |-> "reset", ret |-> Undef]]
    /\ resetAt' = [resetAt EXCEPT ![c] = requestIdRef[c] + 1]
    /\ UNCHANGED <<listeners, now, phase, taskKey, cacheTime, maxRetries,
                   resolvedTaskKey, unmountedRef, isSyncingRef, probe>>
    /\ UNCHANGED <<optVars, timerSeq, startedBy>>
    /\ UNCHANGED storeVars

\* the polling effect of the current options is running
PollingEnabled(c) == immediate[c] /\ pollingInterval[c] > 0

\* pollingTimerRef after the cleanup of the polling effect, which clears the
\* timer and drops its handle
PollingCleanup(c) ==
    IF PollingEnabled(c) /\ pollingTimerRef[c] # NoTimer
    THEN [pollingTimerRef EXCEPT ![c] = NoTimer]
    ELSE pollingTimerRef

\* (variant) the unmount cleanup neither marks the controller unmounted nor
\* aborts the current request
Unmount_KeepsRunning(c) ==
    /\ phase[c] = "mounted"
    /\ OpsDone < MaxOps
    /\ phase' = [phase EXCEPT ![c] = "unmounted"]
    /\ listeners' = IF resolvedTaskKey[c] # NoKey
                    THEN Unsubscribed(listeners, resolvedTaskKey[c], c)
                    ELSE listeners
    /\ timers' = ClearTimeout(timers, c)
    /\ pollingTimerRef' = PollingCleanup(c)
    /\ UNCHANGED <<globalStore, now, taskKey, cacheTime, maxRetries,
                   resolvedTaskKey, localState, requestIdRef,
                   abortControllerRef, aborted, unmountedRef, lastArgsRef,
                   isSyncingRef, invs, lastCall, resetAt, probe>>
    /\ UNCHANGED <<optVars, timerSeq, startedBy>>
    /\ UNCHANGED storeVars

\* the effect cleanups of unmount: unsubscribe, the cleanup of the polling
\* effect, mark unmounted, abort the current request, clear the poll timer
Unmount(c) ==
    /\ phase[c] = "mounted"
    /\ OpsDone < MaxOps
    /\ phase' = [phase EXCEPT ![c] = "unmounted"]
    /\ listeners' = IF resolvedTaskKey[c] # NoKey
                    THEN Unsubscribed(listeners, resolvedTaskKey[c], c)
                    ELSE listeners
    /\ unmountedRef' = [unmountedRef EXCEPT ![c] = TRUE]
    /\ aborted' = AbortCurrent(c)
    /\ timers' = ClearTimeout(timers, c)
    /\ pollingTimerRef' = PollingCleanup(c)
    /\ UNCHANGED <<globalStore, now, taskKey, cacheTime, maxRetries,
                   resolvedTaskKey, localState, requestIdRef,
                   abortControllerRef, lastArgsRef, isSyncingRef, invs,
                   lastCall, resetAt, probe>>
    /\ UNCHANGED <<optVars, timerSeq, startedBy>>
    /\ UNCHANGED storeVars

\* the clock advances
Tick ==
    /\ OpsDone < MaxOps
    /\ now' = now + 1
    /\ UNCHANGED <<globalStore, listeners, phase, taskKey, cacheTime,
                   maxRetries, resolvedTaskKey, localState, requestIdRef,
                   abortControllerRef, aborted, pollingTimerRef, unmountedRef,
                   lastArgsRef, isSyncingRef, invs, lastCall, resetAt,
                   probe>>
    /\ UNCHANGED <<optVars, timerVars, startedBy>>
    /\ UNCHANGED storeVars

Next ==
    \/ \E c \in Ctrl : Mount(c)
    \/ \E c \in Ctrl, a \in ArgVals : Execute(c, a)
    \/ \E c \in Ctrl, g \in 1 .. MaxOps, ok \in BOOLEAN : Settle(c, g, ok)
    \/ \E c \in Ctrl : Cancel(c)
    \/ \E c \in Ctrl : Reset(c)
    \/ \E c \in Ctrl : Unmount(c)
    \/ Tick

Spec == Init /\ [][Next]_vars

TypeOK ==
    /\ DOMAIN globalStore \subseteq Keys
    /\ now \in 1 .. MaxOps + 1
    /\ \A c \in Ctrl : requestIdRef[c] \in 0 .. MaxOps

----------------------------------------------------------------------------
(* The automatic runs: options.immediate and options.pollingInterval *)

\* the invocations after an automatic execute of controller c by who
ExecuteStartedBy(c, who) ==
    startedBy' = IF CacheHit(c)
                 THEN startedBy
                 ELSE startedBy @@ (<<c, requestIdRef[c] + 1>> :> who)

\* first render and its effects of a controller with immediate: the
\* immediate effect calls execute(), the polling effect arms the first
\* timeout when pollingInterval > 0 (the controller has no key, so the
\* subscription effect does nothing)
MountImmediate(c) ==
    /\ phase[c] = "new"
    /\ immediate[c]
    /\ resolvedTaskKey[c] = NoKey
    /\ phase' = [phase EXCEPT ![c] = "mounted"]
    /\ ExecuteBody(c, NoArgs)
    /\ ExecuteStartedBy(c, "immediate")
    /\ IF pollingInterval[c] > 0
       THEN SetTimeout(c, timers)
       ELSE UNCHANGED <<timers, timerSeq, pollingTimerRef>>
    /\ UNCHANGED <<listeners, now, taskKey, cacheTime, maxRetries,
                   resolvedTaskKey, unmountedRef, isSyncingRef, resetAt,
                   probe>>
    /\ UNCHANGED optVars
    /\ UNCHANGED storeVars

\* the timeout h of controller c fires: poll() up to its await of execute
FireTimer(c, h) ==
    /\ <<c, h>> \in timers
    /\ IF unmountedRef[c]
       THEN /\ timers' = timers \ {<<c, h>>}
            /\ UNCHANGED <<globalStore, localState, requestIdRef,
                           abortControllerRef, aborted, lastArgsRef, invs,
                           lastCall, timerSeq, pollingTimerRef, startedBy>>
       ELSE /\ ExecuteBody(c, IF lastArgsRef[c] = Null
                              THEN NoArgs ELSE lastArgsRef[c])
            /\ ExecuteStartedBy(c, "poll")
            /\ IF CacheHit(c)
               THEN SetTimeout(c, timers \ {<<c, h>>})
               ELSE /\ timers' = timers \ {<<c, h>>}
                    /\ UNCHANGED <<timerSeq, pollingTimerRef>>
    /\ UNCHANGED <<listeners, now, phase, taskKey, cacheTime, maxRetries,
                   resolvedTaskKey, unmountedRef, isSyncingRef, resetAt,
                   probe>>
    /\ UNCHANGED optVars
    /\ UNCHANGED storeVars

\* a render of controller c with the options immediate = imm and
\* pollingInterval = every, one of which differs from before: the cleanup
\* of the polling effect, the immediate effect when immediate changed, the
\* polling effect
SetOptions(c, imm, every) ==
    /\ phase[c] = "mounted"
    /\ <<imm, every>> # <<immediate[c], pollingInterval[c]>>
    /\ OpsDone < MaxOps
    /\ immediate' = [immediate EXCEPT ![c] = imm]
    /\ pollingInterval' = [pollingInterval EXCEPT ![c] = every]
    /\ renders' = renders + 1
    /\ IF imm /\ ~immediate[c]
       THEN /\ ExecuteBody(c, NoArgs)
            /\ ExecuteStartedBy(c, "immediate")
       ELSE UNCHANGED <<globalStore, localState, requestIdRef,
                        abortControllerRef, aborted, lastArgsRef, invs,
                        lastCall, startedBy>>
    /\ LET cleared == IF PollingEnabled(c)
                      THEN ClearTimeout(timers, c)
                      ELSE timers
       IN  IF imm /\ every > 0
           THEN SetTimeout(c, cleared)
           ELSE /\ timers' = cleared
                /\ timerSeq' = timerSeq
                /\ pollingTimerRef' = PollingCleanup(c)
    /\ UNCHANGED <<listeners, now, phase, taskKey, cacheTime, maxRetries,
                   resolvedTaskKey, unmountedRef, isSyncingRef, resetAt,
                   probe>>
    /\ UNCHANGED storeVars

\* the handles a timeout can have within the bound
TimerIds == 1 .. (MaxOps + Cardinality(Ctrl))

InitPoll ==
    /\ InitCtl
    /\ taskKey = (1 :> NoKey) @@ (2 :> "K1")
    /\ cacheTime = 0
    /\ maxRetries = 0
    /\ immediate \in {f \in [Ctrl -> BOOLEAN] :
                            \A c \in Ctrl : f[c] => taskKey[c] = NoKey}
    /\ pollingInterval \in [Ctrl -> {0, PollEvery}]
    /\ probe = ProbeIdle

NextPoll ==
    \/ \E c \in Ctrl : Mount(c)
    \/ \E c \in Ctrl : MountImmediate(c)
    \/ \E c \in Ctrl, h \in TimerIds : FireTimer(c, h)
    \/ \E c \in Ctrl, imm \in BOOLEAN, every \in {0, PollEvery} :
            SetOptions(c, imm, every)
    \/ \E c \in Ctrl, a \in ArgVals : Execute(c, a)
    \/ \E c \in Ctrl, g \in 1 .. MaxOps, ok \in BOOLEAN : Settle(c, g, ok)
    \/ \E c \in Ctrl : Cancel(c)
    \/ \E c \in Ctrl : Reset(c)
    \/ \E c \in Ctrl : Unmount(c)

SpecPoll == InitPoll /\ [][NextPoll]_vars

----------------------------------------------------------------------------
(* Controllers whose task key is a function of the arguments *)

KeyArgs == {1, 2}

InitKey ==
    /\ InitWith({[c \in Ctrl |-> KeyFunction]})
    /\ NoAuto
    /\ maxRetries = 0
    /\ probe = ProbeIdle

NextKey ==
    \/ \E c \in Ctrl : Mount(c)
    \/ \E c \in Ctrl, a \in KeyArgs : Execute(c, a)
    \/ \E c \in Ctrl, g \in 1 .. MaxOps, ok \in BOOLEAN : Settle(c, g, ok)
    \/ \E c \in Ctrl : Cancel(c)
    \/ \E c \in Ctrl : Reset(c)
    \/ \E c \in Ctrl : Unmount(c)
    \/ Tick

SpecKey == InitKey /\ [][NextKey]_vars

----------------------------------------------------------------------------
(* The store called directly, with listeners that record what they get *)

MaxStoreOps == 4

StoreKeys == {"K1", "K2"}
StoreListeners == Ctrl
StoreStates ==
    {createInitialState(0),
     [createInitialState(1) EXCEPT !.data = 5, !.lastUpdated = 1]}
StorePartials == {[loading |-> TRUE], [data |-> 7, retryCount |-> 1]}

\* the variables of the controllers
hookVars == <<now, phase, taskKey, cacheTime, maxRetries, resolvedTaskKey,
              localState, requestIdRef, abortControllerRef, aborted,
              pollingTimerRef, unmountedRef, lastArgsRef, isSyncingRef, invs,
              lastCall, resetAt, optVars, timerVars, startedBy, probe>>

\* notifyListeners with recording listeners: every listener of key is
\* called once with the AsyncState fields of state
NotifyCalls(log, key, state) ==
    [l \in DOMAIN log |->
        IF key \in DOMAIN listeners /\ l \in listeners[key]
        THEN Append(log[l], AsyncOf(state))
        ELSE log[l]]

\* what the model remembers of a direct store call: flag tells that
\* setState stored a state equal to the entry, that updateState or
\* deleteState found no entry, that the unsubscribe function had been
\* called before
StoreCall(op, key, flag) == [op |-> op, key |-> key, flag |-> flag]

StoreCalled(op, key, flag) ==
    /\ storeOps < MaxStoreOps
    /\ storeOps' = storeOps + 1
    /\ lastStoreCall' = StoreCall(op, key, flag)

\* (variant) setState skips the listeners when the state is the entry's
setState_Dedup(key, state) ==
    /\ StoreCalled("setState", key,
                   HasState(globalStore, key) /\ globalStore[key] = state)
    /\ globalStore' = StorePut(globalStore, key, state)
    /\ calls' = IF HasState(globalStore, key) /\ globalStore[key] = state
                THEN calls
                ELSE NotifyCalls(calls, key, state)
    /\ UNCHANGED <<listeners, unsubs, notifying, hookVars>>

setState(key, state) ==
    /\ StoreCalled("setState", key,
                   HasState(globalStore, key) /\ globalStore[key] = state)
    /\ globalStore' = StorePut(globalStore, key, state)
    /\ calls' = NotifyCalls(calls, key, state)
    /\ UNCHANGED <<listeners, unsubs, notifying, hookVars>>

\* (variant) updateState merges into an initial state when there is no entry
updateState_Create(key, partial) ==
    /\ StoreCalled("updateState", key, ~HasState(globalStore, key))
    /\ LET current == IF HasState(globalStore, key)
                      THEN globalStore[key]
                      ELSE createInitialState(0)
           newState == Merge(current, partial)
       IN  /\ globalStore' = StorePut(globalStore, key, newState)
           /\ calls' = NotifyCalls(calls, key, newState)
    /\ UNCHANGED <<listeners, unsubs, notifying, hookVars>>

updateState(key, partial) ==
    /\ StoreCalled("updateState", key, ~HasState(globalStore, key))
    /\ IF HasState(globalStore, key)
       THEN LET newState == Merge(globalStore[key], partial) IN
            /\ globalStore' = StorePut(globalStore, key, newState)
            /\ calls' = NotifyCalls(calls, key, newState)
       ELSE UNCHANGED <<globalStore, calls>>
    /\ UNCHANGED <<listeners, unsubs, notifying, hookVars>>

\* (variant) deleteState hands the deleted entry to the listeners
deleteState_NotifyOld(key) ==
    /\ StoreCalled("deleteState", key, ~HasState(globalStore, key))
    /\ globalStore' = StoreDelete(globalStore, key)
    /\ calls' = NotifyCalls(calls, key,
                    IF HasState(globalStore, key)
                    THEN globalStore[key]
                    ELSE createInitialState(0))
    /\ UNCHANGED <<listeners, unsubs, notifying, hookVars>>

deleteState(key) ==
    /\ StoreCalled("deleteState", key, ~HasState(globalStore, key))
    /\ globalStore' = StoreDelete(globalStore, key)
    /\ calls' = NotifyCalls(calls, key, createInitialState(0))
    /\ UNCHANGED <<listeners, unsubs, notifying, hookVars>>

\* subscribe(key, l): the unsubscribe function it returns is the next
\* element of unsubs
subscribe(key, l) ==
    /\ StoreCalled("subscribe", key, FALSE)
    /\ listeners' = Subscribed(listeners, key, l)
    /\ unsubs' = Append(unsubs, [key |-> key, listener |-> l, called |-> FALSE])
    /\ UNCHANGED <<globalStore, calls, notifying, hookVars>>

\* the i-th unsubscribe function is called
unsubscribe(i) ==
    /\ i \in DOMAIN unsubs
    /\ StoreCalled("unsubscribe", unsubs[i].key, unsubs[i].called)
    /\ listeners' = Unsubscribed(listeners, unsubs[i].key, unsubs[i].listener)
    /\ unsubs' = [unsubs EXCEPT ![i].called = TRUE]
    /\ UNCHANGED <<globalStore, calls, notifying, hookVars>>

InitStore ==
    /\ InitCtl
    /\ NoAuto
    /\ taskKey = (1 :> NoKey) @@ (2 :> "K1")
    /\ cacheTime = 0
    /\ maxRetries = 0
    /\ probe = ProbeIdle

NextStore ==
    \/ \E key \in StoreKeys, state \in StoreStates : setState(key, state)
    \/ \E key \in StoreKeys, partial \in StorePartials :
            updateState(key, partial)
    \/ \E key \in StoreKeys : deleteState(key)
    \/ \E key \in StoreKeys, l \in StoreListeners : subscribe(key, l)
    \/ \E i \in 1 .. MaxStoreOps : unsubscribe(i)

SpecStore == InitStore /\ [][NextStore]_vars

----------------------------------------------------------------------------
(* isCacheValid called directly, on every input within the bound *)

MaxProbe == 3

ProbeInputs ==
    [hasState : BOOLEAN, lastUpdated : {Null} \cup (0 .. MaxProbe),
     cacheTime : 0 .. MaxProbe, now : 0 .. MaxProbe, out : {"unset"}]

InitCache ==
    /\ InitCtl
    /\ NoAuto
    /\ taskKey = (1 :> NoKey) @@ (2 :> "K1")
    /\ cacheTime = 0
    /\ maxRetries = 0
    /\ probe \in ProbeInputs

CallIsCacheValid ==
    /\ probe.out = "unset"
    /\ probe' = [probe EXCEPT !.out =
                    IF isCacheValid(probe.hasState, probe.lastUpdated,
                                    probe.cacheTime, probe.now)
                    THEN "true" ELSE "false"]
    /\ UNCHANGED ctlVars

NextCache == CallIsCacheValid

SpecCache == InitCache /\ [][NextCache]_vars

----------------------------------------------------------------------------
(* The fan-out of a store call to the syncState listeners of the mounted
   controllers, one listener call per step *)

\* the variables of a controller that syncState does not assign
syncFrame == <<now, phase, taskKey, cacheTime, maxRetries, resolvedTaskKey,
               requestIdRef, abortControllerRef, aborted, pollingTimerRef,
               unmountedRef, lastArgsRef, invs, lastCall, resetAt, optVars,
               timerVars, startedBy, probe>>

\* notifyListeners(key, state) before its loop: the listener set of key
\* (none if the key has no set) and the AsyncState it hands out
StartNotify(key, state) ==
    LET keyListeners == IF key \in DOMAIN listeners
                        THEN listeners[key]
                        ELSE {}
    IN  notifying' = [active |-> TRUE, key |-> key, state |-> AsyncOf(state),
                      subs |-> keyListeners, todo |-> keyListeners,
                      before |-> calls]

\* setState(key, state) up to the loop of notifyListeners
SyncSetState(key, state) ==
    /\ ~notifying.active
    /\ StoreCalled("setState", key, FALSE)
    /\ globalStore' = StorePut(globalStore, key, state)
    /\ StartNotify(key, state)
    /\ UNCHANGED <<listeners, calls, unsubs, hookVars>>

\* deleteState(key) up to the loop of notifyListeners
SyncDeleteState(key) ==
    /\ ~notifying.active
    /\ StoreCalled("deleteState", key, FALSE)
    /\ globalStore' = StoreDelete(globalStore, key)
    /\ StartNotify(key, createInitialState(0))
    /\ UNCHANGED <<listeners, calls, unsubs, hookVars>>

\* (variant) the listener writes the state it received back to the store
syncState_Republish(c) ==
    /\ notifying.active
    /\ c \in notifying.todo
    /\ localState' = [localState EXCEPT ![c] = notifying.state]
    /\ isSyncingRef' = [isSyncingRef EXCEPT ![c] = FALSE]
    /\ calls' = [calls EXCEPT ![c] = Append(@, notifying.state)]
    /\ globalStore' = StorePut(globalStore, notifying.key,
                            AsTaskState(notifying.state @@ [requestId |-> 0]))
    /\ notifying' = [notifying EXCEPT !.todo = notifying.subs]
    /\ UNCHANGED <<listeners, unsubs, storeOps, lastStoreCall, syncFrame>>

\* one iteration of the loop of notifyListeners: the syncState listener of
\* controller c is called with the state; unless unmounted it sets
\* isSyncingRef, replaces the local state and clears isSyncingRef
syncState(c) ==
    /\ notifying.active
    /\ c \in notifying.todo
    /\ IF ~unmountedRef[c]
       THEN /\ localState' = [localState EXCEPT ![c] = notifying.state]
            /\ isSyncingRef' = [isSyncingRef EXCEPT ![c] = FALSE]
       ELSE UNCHANGED <<localState, isSyncingRef>>
    /\ calls' = [calls EXCEPT ![c] = Append(@, notifying.state)]
    /\ notifying' = [notifying EXCEPT !.todo = @ \ {c}]
    /\ UNCHANGED <<globalStore, listeners, unsubs, storeOps, lastStoreCall,
                   syncFrame>>

\* the loop has called every listener: notifyListeners and the store call
\* return
NotifyReturn ==
    /\ notifying.active
    /\ notifying.todo = {}
    /\ notifying' = NoNotify
    /\ UNCHANGED <<globalStore, listeners, calls, unsubs, storeOps,
                   lastStoreCall, hookVars>>

\* mount and unmount happen between store calls, never inside the loop
SyncMount(c) == ~notifying.active /\ Mount(c)
SyncUnmount(c) == ~notifying.active /\ Unmount(c)

InitSync ==
    /\ InitCtl
    /\ NoAuto
    /\ cacheTime = 0
    /\ maxRetries = 0
    /\ probe = ProbeIdle

NextSync ==
    \/ \E c \in Ctrl : SyncMount(c)
    \/ \E c \in Ctrl : SyncUnmount(c)
    \/ \E key \in StoreKeys, state \in StoreStates : SyncSetState(key, state)
    \/ \E key \in StoreKeys : SyncDeleteState(key)
    \/ \E c \in Ctrl : syncState(c)
    \/ NotifyReturn

\* the loop of notifyListeners is synchronous: once started it runs to its
\* end
SpecSync ==
    /\ InitSync
    /\ [][NextSync]_vars
    /\ WF_vars(\E c \in Ctrl : syncState(c))
    /\ WF_vars(NotifyReturn)

----------------------------------------------------------------------------
(* Polling with retries: controller 1 has immediate and a polling interval *)

InitPollRetry ==
    /\ InitCtl
    /\ taskKey = (1 :> NoKey) @@ (2 :> "K1")
    /\ cacheTime = 0
    /\ maxRetries = 1
    /\ immediate = (1 :> TRUE) @@ (2 :> FALSE)
    /\ pollingInterval = (1 :> PollEvery) @@ (2 :> 0)
    /\ probe = ProbeIdle

NextPollRetry ==
    \/ \E c \in Ctrl : Mount(c)
    \/ \E c \in Ctrl : MountImmediate(c)
    \/ \E c \in Ctrl, h \in TimerIds : FireTimer(c, h)
    \/ \E c \in Ctrl, a \in ArgVals : Execute(c, a)
    \/ \E c \in Ctrl, g \in 1 .. MaxOps, ok \in BOOLEAN : Settle(c, g, ok)
    \/ \E c \in Ctrl : Cancel(c)
    \/ \E c \in Ctrl : Unmount(c)

SpecPollRetry == InitPollRetry /\ [][NextPollRetry]_vars

----------------------------------------------------------------------------
(* execute, cancel and reset called through a reference kept beyond unmount *)

\* execute(a) called after the unmount of the controller
LateExecute(c, a) ==
    /\ phase[c] = "unmounted"
    /\ ExecuteBody(c, a)
    /\ UNCHANGED <<listeners, now, phase, taskKey, cacheTime, maxRetries,
                   resolvedTaskKey, pollingTimerRef, unmountedRef,
                   isSyncingRef, resetAt, probe>>
    /\ UNCHANGED <<optVars, timerVars, startedBy>>
    /\ UNCHANGED storeVars

\* cancel() called after the unmount of the controller
LateCancel(c) ==
    /\ phase[c] = "unmounted"
    /\ CancelBody(c)
    /\ UNCHANGED <<globalStore, listeners, now, phase, taskKey, cacheTime,
                   maxRetries, resolvedTaskKey, localState, unmountedRef,
                   lastArgsRef, isSyncingRef, lastCall, resetAt, probe>>
    /\ UNCHANGED <<optVars, timerSeq, startedBy>>
    /\ UNCHANGED storeVars

\* reset() called after the unmount of the controller: cancel(), then
\* deleteState of the key; the local state is not set (unmountedRef)
LateReset(c) ==
    LET key == resolvedTaskKey[c] IN
    /\ phase[c] = "unmounted"
    /\ CancelBody(c)
    /\ globalStore' = IF key # NoKey
                      THEN StoreDelete(globalStore, key)
                      ELSE globalStore
    /\ localState' = IF key # NoKey
                     THEN notifyListeners(localState, key,
                                          createInitialState(0))
                     ELSE localState
    /\ lastArgsRef' = [lastArgsRef EXCEPT ![c] = Null]
    /\ lastCall' = [lastCall EXCEPT ![c] = [op |-> "reset", ret |-> Undef]]
    /\ resetAt' = [resetAt EXCEPT ![c] = requestIdRef[c] + 1]
    /\ UNCHANGED <<listeners, now, phase, taskKey, cacheTime, maxRetries,
                   resolvedTaskKey, unmountedRef, isSyncingRef, probe>>
    /\ UNCHANGED <<optVars, timerSeq, startedBy>>
    /\ UNCHANGED storeVars

InitLate ==
    /\ InitCtl
    /\ NoAuto
    /\ cacheTime = 0
    /\ maxRetries = 0
    /\ probe = ProbeIdle

NextLate ==
    \/ \E c \in Ctrl : Mount(c)
    \/ \E c \in Ctrl, a \in ArgVals : Execute(c, a)
    \/ \E c \in Ctrl, g \in 1 .. MaxOps, ok \in BOOLEAN : Settle(c, g, ok)
    \/ \E c \in Ctrl : Unmount(c)
    \/ \E c \in Ctrl, a \in ArgVals : LateExecute(c, a)
    \/ \E c \in Ctrl : LateCancel(c)
    \/ \E c \in Ctrl : LateReset(c)

SpecLate == InitLate /\ [][NextLate]_vars

----------------------------------------------------------------------------
(* options.taskKey changes between renders *)

\* the values options.taskKey takes in this specification
RekeyOpts == {NoKey, "K1", KeyFunction}

\* (variant) the subscription effect does not depend on the resolved key:
\* the listener stays where it was registered at mount
Resubscribe_Never(c, oldKey, newKey) ==
    UNCHANGED <<localState, listeners>>

\* the subscription effect re-run for a changed resolvedTaskKey: the cleanup
\* of the previous run unsubscribes from the old key; the new run copies
\* the entry of the new key, if any, to the local state and subscribes
Resubscribe(c, oldKey, newKey) ==
    LET removed == IF oldKey # NoKey
                   THEN Unsubscribed(listeners, oldKey, c)
                   ELSE listeners
    IN  IF newKey # NoKey
        THEN /\ localState' =
                    IF HasState(globalStore, newKey)
                    THEN [localState EXCEPT ![c] = AsyncOf(globalStore[newKey])]
                    ELSE localState
             /\ listeners' = Subscribed(removed, newKey, c)
        ELSE /\ localState' = localState
             /\ listeners' = removed

\* a render of controller c with another options.taskKey: the key effect
\* resolves it and, if the string differs, stores it, and the render that
\* follows re-runs the subscription effect
SetTaskKey(c, tk) ==
    LET oldKey == resolvedTaskKey[c]
        newKey == ResolveKey(tk)
    IN
    /\ phase[c] = "mounted"
    /\ tk # taskKey[c]
    /\ OpsDone < MaxOps
    /\ renders' = renders + 1
    /\ taskKey' = [taskKey EXCEPT ![c] = tk]
    /\ resolvedTaskKey' = [resolvedTaskKey EXCEPT ![c] = newKey]
    /\ IF newKey # oldKey
       THEN Resubscribe(c, oldKey, newKey)
       ELSE UNCHANGED <<localState, listeners>>
    /\ UNCHANGED <<globalStore, now, phase, cacheTime, maxRetries,
                   requestIdRef, abortControllerRef, aborted,
                   pollingTimerRef, unmountedRef, lastArgsRef, isSyncingRef,
                   invs, lastCall, resetAt, immediate, pollingInterval,
                   probe>>
    /\ UNCHANGED <<timerVars, startedBy>>
    /\ UNCHANGED storeVars

InitRekey ==
    /\ InitWith([Ctrl -> RekeyOpts])
    /\ NoAuto
    /\ cacheTime = 0
    /\ maxRetries = 0
    /\ probe = ProbeIdle

NextRekey ==
    \/ \E c \in Ctrl : Mount(c)
    \/ \E c \in Ctrl, tk \in RekeyOpts : SetTaskKey(c, tk)
    \/ \E c \in Ctrl, a \in ArgVals : Execute(c, a)
    \/ \E c \in Ctrl, g \in 1 .. MaxOps, ok \in BOOLEAN : Settle(c, g, ok)
    \/ \E c \in Ctrl : Cancel(c)
    \/ \E c \in Ctrl : Reset(c)
    \/ \E c \in Ctrl : Unmount(c)

SpecRekey == InitRekey /\ [][NextRekey]_vars

----------------------------------------------------------------------------
(* Every call of the action settles *)

\* the controller whose calls are followed
LiveCtrl == {1}

InitLive ==
    /\ InitCtl
    /\ NoAuto
    /\ cacheTime = 0
    /\ probe = ProbeIdle

\* the other controller only mounts and mirrors
NextLive ==
    \/ \E c \in Ctrl : Mount(c)
    \/ \E c \in LiveCtrl, a \in ArgVals : Execute(c, a)
    \/ \E c \in LiveCtrl, g \in 1 .. MaxOps, ok \in BOOLEAN :
            Settle(c, g, ok)
    \/ \E c \in LiveCtrl : Cancel(c)
    \/ \E c \in LiveCtrl : Reset(c)
    \/ \E c \in LiveCtrl : Unmount(c)

\* while the action has promises outstanding, one of them is eventually
\* resolved or rejected
SpecLive ==
    /\ InitLive
    /\ [][NextLive]_vars
    /\ WF_vars(\E c \in Ctrl, g \in 1 .. MaxOps, ok \in BOOLEAN :
                    Settle(c, g, ok))

----------------------------------------------------------------------------
(* Properties *)

InvIds == Ctrl \X (1 .. MaxOps)
InvOf(c) == {id \in DOMAIN invs : id[1] = c}

\* the step lets the awaited action of invocation id settle: its promise
\* is done afterwards, or the action has been called once more (a retry)
Settles(id) ==
    /\ InFlight(id)
    /\ \/ invs'[id].status = "done"
       \/ invs'[id].calls # invs[id].calls

\* a later invocation of the same controller exists
Superseded(id) == \E h \in InvOf(id[1]) : h[2] > id[2]

\* C1: race control. When an invocation settles (its action resolves or
\* rejects) after a later invocation was started on the same controller, the
\* step changes neither any local state nor the store; and while the latest
\* invocation of a controller has committed its result and the generation
\* has not moved since, the controller never shows the result of one of its
\* earlier invocations (for an unkeyed controller: it shows exactly the
\* result of the latest one), whatever the order of settling was.
C1_StaleSettleIsNoOp ==
    \A id \in DOMAIN invs :
        (Settles(id) /\ Superseded(id))
            => (localState' = localState /\ globalStore' = globalStore)

C1_LatestResultStands ==
    \A id \in DOMAIN invs :
        LET c == id[1] g == id[2] IN
        (invs[id].outcome = "success" /\ requestIdRef[c] = g)
            => /\ \A h \in 1 .. (g - 1) : localState[c].data # ResultOf(c, h)
               /\ resolvedTaskKey[c] = NoKey
                    => localState[c].data = ResultOf(c, g)

C1_RaceControl ==
    [][C1_StaleSettleIsNoOp]_vars /\ []C1_LatestResultStands

\* C1 witness: execute A then B on one controller, B settled first and
\* committed, A settled afterwards, and the data is B's result
C1_Witness ==
    \E c \in Ctrl :
        /\ <<c, 1>> \in DOMAIN invs /\ <<c, 2>> \in DOMAIN invs
        /\ invs[<<c, 1>>].status = "done" /\ invs[<<c, 1>>].late
        /\ invs[<<c, 2>>].outcome = "success"
        /\ localState[c].data = ResultOf(c, 2)

\* C2: when an invocation settles after cancel() was called on it, the
\* step changes neither any local state nor the store, and the promise of
\* its execute resolves with nothing.
C2_CancelledSettle ==
    \A id \in DOMAIN invs :
        (Settles(id) /\ invs[id].cancelled)
            => /\ localState' = localState
               /\ globalStore' = globalStore
               /\ invs'[id].status = "done"
               /\ invs'[id].ret = Undef

C2_CancelSuppressesCommit == [][C2_CancelledSettle]_vars

\* C2 witness: an invocation that was cancelled while in flight has settled
\* and its result is nowhere in the state
C2_Witness ==
    \E id \in DOMAIN invs :
        /\ invs[id].status = "done" /\ invs[id].cancelled
        /\ invs[id].ret = Undef
        /\ localState[id[1]].data # ResultOf(id[1], id[2])
        /\ \A k \in DOMAIN globalStore :
                globalStore[k].data # ResultOf(id[1], id[2])

\* the generation of invocation id is current and its signal is not aborted
Current(id) ==
    /\ InFlight(id)
    /\ ~unmountedRef[id[1]]
    /\ requestIdRef[id[1]] = id[2]
    /\ id \notin aborted

\* C3 (as claimed): once an invocation that was cancelled in flight has
\* settled, and no invocation that can still commit is in flight under the
\* controller's key or on the controller, the controller's loading is false.
C3_Claim_LoadingClearedAfterCancel ==
    \A id \in DOMAIN invs :
        LET c == id[1] IN
        (/\ invs[id].status = "done" /\ invs[id].cancelled
         /\ ~unmountedRef[c]
         /\ \A other \in DOMAIN invs :
                Current(other) =>
                    /\ other[1] # c
                    /\ (invs[other].key = NoKey
                        \/ invs[other].key # resolvedTaskKey[c]))
            => localState[c].loading = FALSE

\* C4: retry exhaustion. The step in which an execute ends in terminal
\* failure comes after exactly maxRetries + 1 calls of the action, and
\* leaves loading = false, retryCount = maxRetries and the error of the
\* last rejection in the local state; data is absent afterwards if it was
\* absent when execute was called.
C4_FailureCommit ==
    \A id \in DOMAIN invs :
        LET c == id[1] g == id[2] IN
        (Settles(id) /\ invs'[id].outcome = "failure")
            => /\ invs[id].calls = maxRetries + 1
               /\ localState'[c].loading = FALSE
               /\ localState'[c].retryCount = maxRetries
               /\ localState'[c].error = ErrorOf(c, g, maxRetries)
               /\ Absent(invs[id].data0) => Absent(localState'[c].data)

C4_RetryExhaustion == [][C4_FailureCommit]_vars

\* C4 witness: with maxRetries = 2 an execute has ended in terminal failure
\* after its third rejection, with no data
C4_Witness ==
    \E id \in DOMAIN invs :
        LET c == id[1] IN
        /\ maxRetries = 2
        /\ invs[id].outcome = "failure"
        /\ localState[c].error = ErrorOf(c, id[2], 2)
        /\ localState[c].retryCount = 2
        /\ ~localState[c].loading
        /\ Absent(localState[c].data)

\* C5: the promise of execute never rejects. In the step in which it is
\* settled it resolves with the data when the result is committed (the local
\* data is that result), and with nothing when the retries are exhausted
\* (the local error field then holds the failure) or when the result is
\* discarded (no local state changes).
C5_SettleStep ==
    \A id \in DOMAIN invs :
        LET c == id[1] g == id[2] IN
        (Settles(id) /\ invs'[id].status = "done")
            => /\ invs'[id].ret # Rejected
               /\ invs'[id].outcome \in {"success", "failure", "discarded"}
               /\ invs'[id].outcome = "success"
                    => /\ invs'[id].ret = ResultOf(c, g)
                       /\ localState'[c].data = ResultOf(c, g)
                       /\ localState'[c].error = Null
               /\ invs'[id].outcome = "failure"
                    => /\ invs'[id].ret = Undef
                       /\ localState'[c].error = ErrorOf(c, g, invs[id].retryCount)
               /\ invs'[id].outcome = "discarded"
                    => /\ invs'[id].ret = Undef
                       /\ localState' = localState

C5_ExecuteNeverRejects == [][C5_SettleStep]_vars

\* C5 witness: one execute has resolved with its data, another one has
\* resolved with nothing after a terminal failure that the error field shows
C5_Witness ==
    \E i, j \in DOMAIN invs :
        /\ invs[i].outcome = "success" /\ invs[i].ret = ResultOf(i[1], i[2])
        /\ invs[j].outcome = "failure" /\ invs[j].ret = Undef
        /\ localState[j[1]].error # Null

\* the precondition of the cache short-circuit, in the words of the contract
CachePre(c) ==
    LET key == resolvedTaskKey[c] IN
    /\ key # NoKey
    /\ cacheTime > 0
    /\ key \in DOMAIN globalStore
    /\ globalStore[key].lastUpdated \notin {Null, Undef, 0}
    /\ now - globalStore[key].lastUpdated < cacheTime

\* C6: cache short-circuit. An execute called with a resolved key,
\* cacheTime > 0 and a valid store entry copies data, error, retryCount and
\* lastUpdated of the entry to the local state with loading = false and
\* returns the entry's data; it starts no invocation, changes no generation,
\* neither aborts nor replaces an AbortController, writes no store entry and
\* changes no other controller's state.
C6_HitStep ==
    \A c \in Ctrl, a \in ArgVals :
        (CachePre(c) /\ Execute(c, a))
            => LET entry == globalStore[resolvedTaskKey[c]] IN
               /\ localState'[c] = [AsyncOf(entry) EXCEPT !.loading = FALSE]
               /\ \A d \in Ctrl \ {c} : localState'[d] = localState[d]
               /\ lastCall'[c] = [op |-> "hit", ret |-> entry.data]
               /\ invs' = invs
               /\ requestIdRef' = requestIdRef
               /\ abortControllerRef' = abortControllerRef
               /\ aborted' = aborted
               /\ globalStore' = globalStore

C6_CacheShortCircuit == [][C6_HitStep]_vars

\* C6 witness: the last execute of a controller returned cached data, which
\* its local state now shows, while the entry is still valid
C6_Witness ==
    \E c \in Ctrl :
        /\ CachePre(c)
        /\ lastCall[c].op = "hit"
        /\ ~Absent(lastCall[c].ret)
        /\ localState[c].data = lastCall[c].ret
        /\ ~localState[c].loading

\* C7 (as claimed): an execute that skips the action via the cache returns
\* the data of a successful invocation, never nothing from an entry whose
\* latest terminal commit was a failure.
C7_Claim_CacheHoldsSuccessOnly ==
    \A c \in Ctrl : lastCall[c].op = "hit" => ~Absent(lastCall[c].ret)

\* the predicate isCacheValid is documented to compute
RefCacheValid(p) ==
    IF ~p.hasState \/ p.lastUpdated = Null \/ p.cacheTime <= 0
    THEN FALSE
    ELSE p.now - p.lastUpdated < p.cacheTime

\* C8 (as claimed): isCacheValid equals the reference predicate on every
\* input, a lastUpdated of 0 included.
C8_Claim_IsCacheValidIsReference ==
    probe.out # "unset" => ((probe.out = "true") <=> RefCacheValid(probe))

\* C9: cross-instance propagation. In the step in which a successful execute
\* of controller a commits under key k, every other mounted controller b that
\* resolves k gets the same local state as a: the data of a's invocation,
\* lastUpdated = now, loading = false, no error; and no invocation of b is
\* started or changed.
C9_SuccessCommit ==
    \A id \in DOMAIN invs :
        LET a == id[1] k == invs[id].key IN
        (Settles(id) /\ invs'[id].outcome = "success" /\ k # NoKey)
            => \A b \in Ctrl \ {a} :
                (phase[b] = "mounted" /\ resolvedTaskKey[b] = k)
                    => /\ localState'[b] = localState'[a]
                       /\ localState'[b].data = ResultOf(a, id[2])
                       /\ localState'[b].lastUpdated = now
                       /\ localState'[b].loading = FALSE
                       /\ localState'[b].error = Null
                       /\ \A j \in InvIds :
                            j[1] = b =>
                                /\ (j \in DOMAIN invs') = (j \in DOMAIN invs)
                                /\ j \in DOMAIN invs => invs'[j] = invs[j]

C9_CrossInstancePropagation == [][C9_SuccessCommit]_vars

\* C9 witness: two mounted controllers share a key, only the first one has
\* ever executed, and the second one shows the first one's result
C9_Witness ==
    /\ phase[1] = "mounted" /\ phase[2] = "mounted"
    /\ resolvedTaskKey[1] # NoKey /\ resolvedTaskKey[1] = resolvedTaskKey[2]
    /\ InvOf(2) = {} /\ lastCall[2].op = "none"
    /\ <<1, 1>> \in DOMAIN invs /\ invs[<<1, 1>>].outcome = "success"
    /\ localState[2].data = ResultOf(1, 1)
    /\ localState[2] = localState[1]

\* C10: reset purges the cache. A reset() of a keyed controller leaves no
\* store entry for its key; the next execute of that controller invokes the
\* action when the key still has no entry, and never returns from the cache
\* a result that one of the controller's own earlier invocations produced.
C10_ResetStep ==
    \A c \in Ctrl :
        LET key == resolvedTaskKey[c] IN
        /\ (Reset(c) /\ key # NoKey) => key \notin DOMAIN globalStore'
        /\ \A a \in ArgVals :
            (Execute(c, a) /\ lastCall[c].op = "reset" /\ key # NoKey
                /\ cacheTime > 0)
              => /\ key \notin DOMAIN globalStore
                    => /\ lastCall'[c].op = "miss"
                       /\ <<c, requestIdRef[c] + 1>> \notin DOMAIN invs
                       /\ <<c, requestIdRef[c] + 1>> \in DOMAIN invs'
                       /\ invs'[<<c, requestIdRef[c] + 1>>].status = "pending"
                 /\ lastCall'[c].op = "hit"
                    => \A g \in 1 .. requestIdRef[c] :
                            lastCall'[c].ret # ResultOf(c, g)

C10_ResetPurgesCache == [][C10_ResetStep]_vars

\* C10 witness: a keyed controller with cacheTime > 0 populated the store by
\* a successful execute, was reset, and its next execute has invoked the
\* action
C10_Witness ==
    \E id \in DOMAIN invs :
        LET c == id[1] IN
        /\ cacheTime > 0
        /\ resolvedTaskKey[c] # NoKey
        /\ InFlight(id) /\ invs[id].afterReset
        /\ \E h \in InvOf(c) : h[2] < id[2] /\ invs[h].outcome = "success"

\* C11: reset() leaves the local state of its controller equal to the
\* initial state, whether or not a task has ever run or is in flight; and
\* when an invocation of the controller that was started before a reset()
\* settles afterwards, the step changes neither the controller's local state
\* nor the store (the deleted entry is not recreated).
C11_ResetStep ==
    /\ \A c \in Ctrl :
            Reset(c) => /\ localState'[c] = InitialAsyncState
                        /\ localState'[c] = AsyncOf(createInitialState(0))
    /\ \A id \in DOMAIN invs :
            (Settles(id) /\ id[2] < resetAt[id[1]])
                => /\ localState'[id[1]] = localState[id[1]]
                   /\ globalStore' = globalStore
                   /\ invs'[id].status = "done"

C11_ResetRestoresInitial == [][C11_ResetStep]_vars

\* C11 witness: a keyed controller was reset while its second invocation
\* was in flight; the invocation has settled since, the local state is
\* initial and the key has no entry
C11_Witness ==
    \E id \in DOMAIN invs :
        LET c == id[1] IN
        /\ invs[id].status = "done" /\ invs[id].cancelled
        /\ id[2] < resetAt[c]
        /\ id[2] > 1
        /\ resolvedTaskKey[c] # NoKey
        /\ localState[c] = InitialAsyncState
        /\ resolvedTaskKey[c] \notin DOMAIN globalStore

\* the invocations of controller c started by the immediate effect or by
\* poll() whose action has not settled yet
AutoInFlight(c) ==
    {id \in DOMAIN startedBy : id[1] = c /\ InFlight(id)}

\* C12 (as claimed): polling non-overlap. On a controller with immediate
\* and a positive pollingInterval, at no time are two invocations that the
\* immediate effect or poll() started in flight together, however long the
\* action takes.
C12_Claim_PollingNonOverlap ==
    \A c \in Ctrl :
        (PollingEnabled(c) /\ renders = 0)
            => Cardinality(AutoInFlight(c)) <= 1

\* C13 (as claimed): polling teardown. While the polling condition of a
\* controller is disabled (immediate false or pollingInterval 0), and once
\* the controller is unmounted, none of its poll timers is armed, also
\* when a poll-initiated execute was in flight at the time of disabling.
C13_Claim_PollingTornDown ==
    \A c \in Ctrl :
        (~PollingEnabled(c) \/ unmountedRef[c])
            => \A t \in timers : t[1] # c

\* C14 (as claimed): last known good data. In the step in which an execute
\* ends in terminal failure, data that was present before stays what it
\* was: in the local state of the executing controller, in the store entry
\* of its key, and in the local state of every controller subscribed to
\* that key.
C14_FailureStep ==
    \A id \in DOMAIN invs :
        LET c == id[1] k == invs[id].key IN
        (Settles(id) /\ invs'[id].outcome = "failure")
            => /\ ~Absent(localState[c].data)
                    => localState'[c].data = localState[c].data
               /\ (k # NoKey /\ k \in DOMAIN globalStore
                        /\ ~Absent(globalStore[k].data))
                    => /\ k \in DOMAIN globalStore'
                       /\ globalStore'[k].data = globalStore[k].data
               /\ k \in DOMAIN listeners
                    => \A b \in listeners[k] :
                        ~Absent(localState[b].data)
                            => localState'[b].data = localState[b].data

C14_Claim_LastKnownGoodData == [][C14_FailureStep]_vars

\* C15 (as claimed): in every terminal state of a mounted controller
\* (loading = false) at most one of data and error is present, whatever
\* successes and failures came before.
C15_Claim_DataXorError ==
    \A c \in Ctrl :
        (phase[c] = "mounted" /\ ~localState[c].loading)
            => (Absent(localState[c].data) \/ Absent(localState[c].error))

\* C16 (as claimed): the local loading of a mounted controller is true
\* exactly while one of its own invocations is outstanding that has been
\* neither cancelled nor superseded.
C16_Claim_LoadingIffOutstanding ==
    \A c \in Ctrl :
        phase[c] = "mounted"
            => (localState[c].loading <=> \E id \in InvOf(c) : Current(id))

\* the entries of the keys other than key are what they were
OtherEntriesKept(key) ==
    \A k \in StoreKeys \ {key} :
        /\ (k \in DOMAIN globalStore') = (k \in DOMAIN globalStore)
        /\ k \in DOMAIN globalStore => globalStore'[k] = globalStore[k]

\* the listeners subscribed to key have each been called once more, with
\* async, and no other listener has been called
DeliveredOnce(key, async) ==
    \A l \in StoreListeners :
        IF key \in DOMAIN listeners /\ l \in listeners[key]
        THEN calls'[l] = calls[l] \o <<async>>
        ELSE calls'[l] = calls[l]

\* C17: setState(key, state) makes state the entry of key, leaves the
\* entries of the other keys and the subscriptions alone, and calls every
\* listener subscribed to key exactly once with the five AsyncState fields
\* of state (no requestId) and no other listener; this also when state
\* equals the entry it overwrites.
C17_SetStateStep ==
    \A key \in StoreKeys, state \in StoreStates :
        setState(key, state)
            => /\ key \in DOMAIN globalStore' /\ globalStore'[key] = state
               /\ OtherEntriesKept(key)
               /\ listeners' = listeners
               /\ DeliveredOnce(key, [f \in AsyncFields |-> state[f]])

C17_SetStateNotifies == [][C17_SetStateStep]_vars

\* C17 witness: the last call was a setState of a state equal to the entry
\* it overwrote; a listener of the key has received that state twice in a
\* row, while a listener subscribed to another key only has received nothing
C17_Witness ==
    \E l, m \in StoreListeners :
        LET k == lastStoreCall.key IN
        /\ lastStoreCall.op = "setState" /\ lastStoreCall.flag
        /\ k \in DOMAIN listeners /\ l \in listeners[k]
        /\ m \notin listeners[k]
        /\ \E k2 \in DOMAIN listeners : m \in listeners[k2]
        /\ calls[m] = << >>
        /\ Len(calls[l]) = 2
        /\ calls[l][1] = calls[l][2]
        /\ calls[l][2] = AsyncOf(globalStore[k])
        /\ "requestId" \notin DOMAIN calls[l][2]

\* C18: updateState(key, partial) on a key without entry changes neither
\* the store nor the subscriptions and calls no listener; on a key with an
\* entry, the new entry has the fields of partial from partial and every
\* other field from the old entry, the other entries stay, and the
\* listeners of key are called as by setState with the new entry.
C18_UpdateStateStep ==
    \A key \in StoreKeys, partial \in StorePartials :
        updateState(key, partial)
            => /\ listeners' = listeners
               /\ OtherEntriesKept(key)
               /\ IF key \notin DOMAIN globalStore
                  THEN /\ globalStore' = globalStore
                       /\ calls' = calls
                  ELSE /\ key \in DOMAIN globalStore'
                       /\ DOMAIN globalStore'[key] = TaskFields
                       /\ \A f \in TaskFields :
                            globalStore'[key][f] =
                                IF f \in DOMAIN partial
                                THEN partial[f]
                                ELSE globalStore[key][f]
                       /\ DeliveredOnce(key,
                            [f \in AsyncFields |-> globalStore'[key][f]])

C18_UpdateStateMerges == [][C18_UpdateStateStep]_vars

\* C18 witness: the last call was an updateState {loading: true} on an
\* entry that held data; the entry still holds the data, is loading, and a
\* listener of the key has received it; the other key, which has a
\* listener too, has no entry and its listener was never called
C18_Witness ==
    \E l, m \in StoreListeners, k2 \in StoreKeys :
        LET k == lastStoreCall.key IN
        /\ lastStoreCall.op = "updateState" /\ ~lastStoreCall.flag
        /\ k \in DOMAIN globalStore
        /\ globalStore[k].loading /\ globalStore[k].data = 5
        /\ k \in DOMAIN listeners /\ l \in listeners[k]
        /\ Len(calls[l]) = 1
        /\ calls[l][1] = AsyncOf(globalStore[k])
        /\ k2 # k /\ k2 \notin DOMAIN globalStore
        /\ k2 \in DOMAIN listeners /\ m \in listeners[k2]
        /\ calls[m] = << >>

\* C19: deleteState(key) leaves no entry for key, keeps the other entries
\* and the subscriptions, and calls every listener of key once with a fresh
\* initial state; on a key without entry the store map stays what it was.
C19_DeleteStateStep ==
    \A key \in StoreKeys :
        deleteState(key)
            => /\ key \notin DOMAIN globalStore'
               /\ OtherEntriesKept(key)
               /\ listeners' = listeners
               /\ DeliveredOnce(key,
                    [data |-> Null, loading |-> FALSE, error |-> Null,
                     retryCount |-> 0, lastUpdated |-> Null])
               /\ key \notin DOMAIN globalStore
                    => globalStore' = globalStore

C19_DeleteStateResets == [][C19_DeleteStateStep]_vars

\* C19 witness: the last call deleted an entry that held data; the key has
\* no entry, and its listener, which had received the data, received an
\* initial state last
C19_Witness ==
    \E l \in StoreListeners :
        LET k == lastStoreCall.key IN
        /\ lastStoreCall.op = "deleteState" /\ ~lastStoreCall.flag
        /\ k \notin DOMAIN globalStore
        /\ k \in DOMAIN listeners /\ l \in listeners[k]
        /\ Len(calls[l]) = 2
        /\ calls[l][1].data = 5
        /\ calls[l][2] = InitialAsyncState

\* listener l is subscribed to key k in the listener map lsn
IsListener(lsn, k, l) == k \in DOMAIN lsn /\ l \in lsn[k]

\* C20 (as claimed): for any sequence of subscribe and unsubscribe calls,
\* a call of an unsubscribe function leaves its listener unsubscribed from
\* its key and every other subscription as it was, and changes nothing
\* when the function had been called before; only subscribed listeners are
\* ever called; and the listener map never holds a key with an empty set.
C20_UnsubscribeStep ==
    /\ \A i \in DOMAIN unsubs :
            unsubscribe(i)
                => /\ ~IsListener(listeners', unsubs[i].key,
                                  unsubs[i].listener)
                   /\ \A k \in StoreKeys, l \in StoreListeners :
                        <<k, l>> # <<unsubs[i].key, unsubs[i].listener>>
                            => (IsListener(listeners', k, l)
                                    <=> IsListener(listeners, k, l))
                   /\ unsubs[i].called => listeners' = listeners
    /\ \A l \in StoreListeners :
            calls'[l] # calls[l]
                => \E k \in StoreKeys : IsListener(listeners, k, l)

C20_NoEmptyListenerSet ==
    \A k \in DOMAIN listeners : listeners[k] # {}

C20_Claim_UnsubscribeContract ==
    [][C20_UnsubscribeStep]_vars /\ []C20_NoEmptyListenerSet

\* the invocations of controller c whose action has not settled and whose
\* signal is not aborted
LiveSignals(c) == {id \in InvOf(c) : InFlight(id) /\ id \notin aborted}

\* C21: cancellation signal. A cache-miss execute hands its action the
\* signal of a new AbortController that is not aborted, and aborts the
\* signals of all earlier invocations of the controller that are still in
\* flight; cancel() and unmount abort the signals of all invocations of the
\* controller in flight. So in every state at most one in-flight
\* invocation of a controller has an un-aborted signal, and it is the one
\* of the current generation.
C21_SignalStep ==
    \A c \in Ctrl :
        LET new == <<c, requestIdRef[c] + 1>> IN
        /\ (\E a \in ArgVals : Execute(c, a)) /\ lastCall'[c].op = "miss"
            => /\ new \notin DOMAIN invs /\ new \notin aborted
               /\ new \in DOMAIN invs' /\ new \notin aborted'
               /\ abortControllerRef'[c] = new
               /\ \A id \in InvOf(c) : InFlight(id) => id \in aborted'
        /\ (Cancel(c) \/ Unmount(c))
            => \A id \in InvOf(c) : InFlight(id) => id \in aborted'
        /\ aborted \subseteq aborted'

C21_OneLiveSignal ==
    \A c \in Ctrl :
        \A id \in LiveSignals(c) :
            /\ LiveSignals(c) = {id}
            /\ id[2] = requestIdRef[c]

C21_CancellationSignal == [][C21_SignalStep]_vars /\ []C21_OneLiveSignal

\* C21 witness: an invocation whose signal cancel() aborted is still in
\* flight next to the invocation of a later execute, which is the only one
\* of the controller with an un-aborted signal and is of the current
\* generation
C21_Witness ==
    \E c \in Ctrl :
        /\ InFlight(<<c, 1>>) /\ invs[<<c, 1>>].cancelled
        /\ <<c, 1>> \in aborted
        /\ LiveSignals(c) = {<<c, 3>>}
        /\ requestIdRef[c] = 3
        /\ abortControllerRef[c] = <<c, 3>>

\* the step is a call on controller c, the settling of one of its
\* invocations, its mount or its unmount
StepOf(c) ==
    \/ Mount(c)
    \/ \E a \in ArgVals : Execute(c, a)
    \/ \E g \in 1 .. MaxOps, ok \in BOOLEAN : Settle(c, g, ok)
    \/ Cancel(c)
    \/ Reset(c)
    \/ Unmount(c)

\* C22: a controller without task key stays out of the store. No step of
\* such a controller (mount, execute, the settling of its invocations,
\* cancel, reset, unmount) changes the store map, the listener map or the
\* local state of another controller, and each of its executes invokes the
\* action, whatever cacheTime is.
C22_UnkeyedStep ==
    \A c \in Ctrl :
        resolvedTaskKey[c] = NoKey
            => /\ StepOf(c)
                    => /\ globalStore' = globalStore
                       /\ listeners' = listeners
                       /\ \A d \in Ctrl \ {c} : localState'[d] = localState[d]
               /\ (\E a \in ArgVals : Execute(c, a))
                    => /\ lastCall'[c].op = "miss"
                       /\ requestIdRef'[c] = requestIdRef[c] + 1
                       /\ <<c, requestIdRef'[c]>> \in DOMAIN invs'
                       /\ invs'[<<c, requestIdRef'[c]>>].calls = 1

C22_UnkeyedStaysLocal == [][C22_UnkeyedStep]_vars

\* C22 witness: with cacheTime > 0 an unkeyed controller shows the result
\* of a first execute, still fresh, and a second execute has invoked the
\* action again; the store and the listener map have nothing of it
C22_Witness ==
    \E c \in Ctrl :
        /\ resolvedTaskKey[c] = NoKey
        /\ cacheTime > 0
        /\ <<c, 1>> \in DOMAIN invs /\ invs[<<c, 1>>].outcome = "success"
        /\ localState[c].data = ResultOf(c, 1)
        /\ now - localState[c].lastUpdated < cacheTime
        /\ InFlight(<<c, 2>>)
        /\ globalStore = EmptyFn
        /\ \A k \in DOMAIN listeners : c \notin listeners[k]

\* the key the arguments a of a call select under the option tk
KeyOfCall(tk, a) ==
    IF tk = NoKey THEN NoKey
    ELSE IF tk = KeyFunction THEN KeyFn(a)
    ELSE tk

\* C23 (as claimed): key resolution per call. An execute(a) uses the key
\* that its own arguments select (the static string, or the key function
\* applied to a): a cache hit returns the data of the entry of that key,
\* and a cache miss writes its loading state to the entry of that key and
\* to no other, and keeps that key for its terminal write.
C23_ExecuteStep ==
    \A c \in Ctrl, a \in KeyArgs :
        Execute(c, a)
            => LET k == KeyOfCall(taskKey[c], a)
                   new == <<c, requestIdRef[c] + 1>>
               IN
               /\ lastCall'[c].op = "hit"
                    => /\ k \in DOMAIN globalStore
                       /\ lastCall'[c].ret = globalStore[k].data
               /\ lastCall'[c].op = "miss"
                    => /\ invs'[new].key = k
                       /\ \A k2 \in DOMAIN globalStore' :
                            k2 # k =>
                                /\ k2 \in DOMAIN globalStore
                                /\ globalStore'[k2] = globalStore[k2]

C23_Claim_KeyPerCall == [][C23_ExecuteStep]_vars

\* C24: cancel() changes neither a local state nor the store; and when no
\* invocation of the controller is in flight, all it changes is the
\* generation counter of the controller and the poll timer, which it
\* clears: nothing a later execute reads is different (the generation is
\* only ever compared for equality with the one of an invocation in
\* flight).
C24_CancelStep ==
    \A c \in Ctrl :
        Cancel(c)
            => /\ localState' = localState
               /\ globalStore' = globalStore
               /\ listeners' = listeners
               /\ (\A id \in InvOf(c) : ~InFlight(id))
                    => /\ invs' = invs
                       /\ aborted' = aborted
                       /\ abortControllerRef' = abortControllerRef
                       /\ lastArgsRef' = lastArgsRef
                       /\ unmountedRef' = unmountedRef
                       /\ \A d \in Ctrl \ {c} :
                            requestIdRef'[d] = requestIdRef[d]
                       /\ timers' = timers \ {<<c, pollingTimerRef[c]>>}
                       /\ \A t \in timers' : t[1] = c => t \in timers

C24_CancelFrame == [][C24_CancelStep]_vars

\* C24 witness: a polling controller whose only invocation has committed
\* its result was cancelled while nothing was in flight: the generation has
\* moved on, its poll timer is gone, and the state still shows the result
C24_Witness ==
    \E c \in Ctrl :
        /\ PollingEnabled(c) /\ renders = 0
        /\ phase[c] = "mounted"
        /\ InvOf(c) = {<<c, 1>>}
        /\ invs[<<c, 1>>].outcome = "success" /\ ~invs[<<c, 1>>].cancelled
        /\ requestIdRef[c] = 2
        /\ timerSeq[c] = 1
        /\ \A t \in timers : t[1] # c
        /\ pollingTimerRef[c] = NoTimer
        /\ localState[c].data = ResultOf(c, 1)
        /\ ~localState[c].loading

\* C25: a cache-miss execute moves the generation of its controller up by
\* exactly one to g, leaves loading = true in the local state, writes for a
\* keyed controller an entry with loading = true and requestId = g whose
\* data, error, retryCount and lastUpdated are those of the entry before
\* (the initial values if there was none), and invokes the action once.
C25_MissStep ==
    \A c \in Ctrl :
        LET k == resolvedTaskKey[c]
            g == requestIdRef[c] + 1
        IN
        ((\E a \in ArgVals : Execute(c, a)) /\ lastCall'[c].op = "miss")
            => /\ requestIdRef'[c] = g
               /\ \A d \in Ctrl \ {c} : requestIdRef'[d] = requestIdRef[d]
               /\ localState'[c].loading = TRUE
               /\ <<c, g>> \notin DOMAIN invs
               /\ <<c, g>> \in DOMAIN invs'
               /\ invs'[<<c, g>>].status = "pending"
               /\ invs'[<<c, g>>].calls = 1
               /\ k = NoKey => globalStore' = globalStore
               /\ k # NoKey
                    => /\ k \in DOMAIN globalStore'
                       /\ globalStore'[k].loading = TRUE
                       /\ globalStore'[k].requestId = g
                       /\ \A f \in {"data", "error", "retryCount",
                                     "lastUpdated"} :
                            globalStore'[k][f] =
                                IF k \in DOMAIN globalStore
                                THEN globalStore[k][f]
                                ELSE createInitialState(0)[f]

C25_LoadingCommit == [][C25_MissStep]_vars

\* C25 witness: the second execute of a keyed controller is in flight; the
\* entry of its key is loading, tagged with generation 2, and still holds
\* the data and the time of the first execute's success
C25_Witness ==
    \E c \in Ctrl :
        LET k == resolvedTaskKey[c] IN
        /\ k # NoKey /\ k \in DOMAIN globalStore
        /\ InFlight(<<c, 2>>) /\ requestIdRef[c] = 2
        /\ invs[<<c, 2>>].calls = 1
        /\ globalStore[k].loading /\ globalStore[k].requestId = 2
        /\ globalStore[k].data = ResultOf(c, 1)
        /\ globalStore[k].lastUpdated \in 1 .. now
        /\ localState[c].loading

\* C26: the success commit. When the action of an invocation that is not
\* stale (controller mounted, generation current, signal not aborted)
\* resolves, the local state of the controller becomes data = result,
\* loading = false, error = null, retryCount = 0, lastUpdated = now, and
\* for a keyed controller the store entry of the key becomes the same five
\* fields with the generation of the invocation; this is so whatever the
\* number of retries consumed and whatever error was shown before.
C26_SuccessStep ==
    \A c \in Ctrl, g \in 1 .. MaxOps :
        (Settle(c, g, TRUE) /\ ~Expired(c, g))
            => LET k == invs[<<c, g>>].key
                   committed == [data |-> ResultOf(c, g), loading |-> FALSE,
                                 error |-> Null, retryCount |-> 0,
                                 lastUpdated |-> now]
               IN  /\ localState'[c] = committed
                   /\ invs'[<<c, g>>].outcome = "success"
                   /\ invs'[<<c, g>>].ret = ResultOf(c, g)
                   /\ k = NoKey => globalStore' = globalStore
                   /\ k # NoKey
                        => /\ k \in DOMAIN globalStore'
                           /\ AsyncOf(globalStore'[k]) = committed
                           /\ globalStore'[k].requestId = g

C26_SuccessCommit == [][C26_SuccessStep]_vars

\* C26 witness: with retries configured, the first execute of a keyed
\* controller failed (its retries exhausted, so an error and a positive
\* retryCount were committed), the second one succeeded, and the local
\* state and the store entry hold the success state
C26_Witness ==
    \E c \in Ctrl :
        /\ maxRetries >= 1
        /\ resolvedTaskKey[c] # NoKey
        /\ <<c, 1>> \in DOMAIN invs /\ invs[<<c, 1>>].outcome = "failure"
        /\ <<c, 2>> \in DOMAIN invs /\ invs[<<c, 2>>].outcome = "success"
        /\ localState[c].data = ResultOf(c, 2)
        /\ localState[c].error = Null
        /\ localState[c].retryCount = 0
        /\ HasState(globalStore, resolvedTaskKey[c])
        /\ globalStore[resolvedTaskKey[c]].requestId = 2
        /\ globalStore[resolvedTaskKey[c]].retryCount = 0
        /\ globalStore[resolvedTaskKey[c]].error = Null

\* the step calls the action of invocation id once more
Retries(id) ==
    /\ InFlight(id)
    /\ invs'[id].status = "pending"
    /\ invs'[id].calls = invs[id].calls + 1

\* no other controller resolves the key of controller c
SoleUser(c) ==
    \/ resolvedTaskKey[c] = NoKey
    \/ \A d \in Ctrl \ {c} : resolvedTaskKey[d] # resolvedTaskKey[c]

\* C27: retries belong to their execute call. A step that retries calls
\* the action again for the same invocation: the same arguments, the same
\* generation (no generation is allocated, no invocation is created), the
\* same cancellation signal (the AbortController of the controller and the
\* set of aborted signals are unchanged); it changes the loading flag of
\* no local state and does not touch the store, and the loading flag of a
\* controller that does not share its key is true after it. When the
\* action of a call that was cancelled or superseded, or whose controller
\* has unmounted, rejects, the call ends without another call of the
\* action and without a change of any local state or of the store. An
\* execute call never calls the action more than maxRetries + 1 times.
C27_RetryStep ==
    \A id \in DOMAIN invs :
        LET c == id[1] IN
        Retries(id)
            => /\ invs'[id].args = invs[id].args
               /\ invs'[id].key = invs[id].key
               /\ DOMAIN invs' = DOMAIN invs
               /\ requestIdRef' = requestIdRef
               /\ requestIdRef[c] = id[2]
               /\ abortControllerRef' = abortControllerRef
               /\ abortControllerRef[c] = id
               /\ aborted' = aborted
               /\ id \notin aborted
               /\ \A d \in Ctrl : localState'[d].loading = localState[d].loading
               /\ globalStore' = globalStore
               /\ SoleUser(c) => localState'[c].loading = TRUE

C27_DeadCallStep ==
    \A c \in Ctrl, g \in 1 .. MaxOps :
        LET id == <<c, g>> IN
        (/\ Settle(c, g, FALSE)
         /\ invs[id].cancelled \/ Superseded(id) \/ unmountedRef[c])
            => /\ invs'[id].status = "done"
               /\ invs'[id].outcome = "discarded"
               /\ \A h \in DOMAIN invs : ~Retries(h)
               /\ localState' = localState
               /\ globalStore' = globalStore

C27_AtMostMaxRetriesPlusOne ==
    \A id \in DOMAIN invs :
        /\ invs[id].calls <= maxRetries + 1
        /\ InFlight(id) => invs[id].calls = invs[id].retryCount + 1

C27_RetriesBelongToCall ==
    /\ [][C27_RetryStep]_vars
    /\ [][C27_DeadCallStep]_vars
    /\ []C27_AtMostMaxRetriesPlusOne

\* C27 witness: a call was cancelled and has ended discarded, and the next
\* call of the same controller has used all its retries (the action was
\* called maxRetries + 1 = 3 times) and is still loading
C27_Witness ==
    \E c \in Ctrl :
        /\ maxRetries = 2
        /\ <<c, 1>> \in DOMAIN invs
        /\ invs[<<c, 1>>].outcome = "discarded" /\ invs[<<c, 1>>].cancelled
        /\ InFlight(<<c, 3>>)
        /\ invs[<<c, 3>>].calls = 3
        /\ invs[<<c, 3>>].args = lastArgsRef[c]
        /\ abortControllerRef[c] = <<c, 3>>
        /\ localState[c].loading
        /\ localState[c].retryCount = 2

\* C28 (as claimed): the retry count is published. After the step in which
\* the k-th attempt of a call of a keyed controller has failed and the
\* action is called again, retryCount = k is in the local state of the
\* controller, in the store entry of its key and in the local state of
\* every other controller subscribed to the key; and every retryCount, in
\* the local states and in the store, is within 0 .. maxRetries.
C28_PublishStep ==
    \A id \in DOMAIN invs :
        LET c == id[1]
            key == invs[id].key
        IN
        (Retries(id) /\ key # NoKey)
            => LET k == invs'[id].retryCount IN
               /\ localState'[c].retryCount = k
               /\ HasState(globalStore', key)
               /\ globalStore'[key].retryCount = k
               /\ \A d \in Ctrl :
                    (key \in DOMAIN listeners /\ d \in listeners[key])
                        => localState'[d].retryCount = k

C28_RetryCountInRange ==
    /\ \A c \in Ctrl : localState[c].retryCount \in 0 .. maxRetries
    /\ \A k \in DOMAIN globalStore :
            globalStore[k].retryCount \in 0 .. maxRetries

C28_Claim_RetryCountPublished ==
    [][C28_PublishStep]_vars /\ []C28_RetryCountInRange

\* C29: unmount discard. When the action of an invocation resolves or
\* rejects after its controller has unmounted, the step commits nothing: no
\* local state changes (that of the controller and those of the other
\* controllers of its key included), the store is unchanged, the action is
\* not called again, and the promise execute returned resolves with
\* undefined.
C29_UnmountedSettleStep ==
    \A c \in Ctrl, g \in 1 .. MaxOps :
        ((\E ok \in BOOLEAN : Settle(c, g, ok)) /\ phase[c] = "unmounted")
            => /\ localState' = localState
               /\ globalStore' = globalStore
               /\ invs'[<<c, g>>].status = "done"
               /\ invs'[<<c, g>>].outcome = "discarded"
               /\ invs'[<<c, g>>].ret = Undef

C29_UnmountDiscard == [][C29_UnmountedSettleStep]_vars

\* C29 witness: a keyed controller executed and unmounted while another
\* controller stays mounted on the key; the invocation has settled since,
\* discarded, and the entry and both local states still show the loading
\* state written by the execute
C29_Witness ==
    \E c \in Ctrl, d \in Ctrl :
        LET key == resolvedTaskKey[c] IN
        /\ c # d
        /\ key # NoKey /\ resolvedTaskKey[d] = key
        /\ phase[c] = "unmounted" /\ phase[d] = "mounted"
        /\ <<c, 1>> \in DOMAIN invs
        /\ invs[<<c, 1>>].status = "done"
        /\ invs[<<c, 1>>].outcome = "discarded"
        /\ invs[<<c, 1>>].ret = Undef
        /\ ~invs[<<c, 1>>].cancelled
        /\ requestIdRef[c] = 1
        /\ HasState(globalStore, key)
        /\ globalStore[key].loading /\ globalStore[key].requestId = 1
        /\ localState[c].loading /\ localState[d].loading
        /\ localState[d].data = Null

\* C30: mirroring does not re-publish. The call of the syncState listener
\* of a controller replaces the local state of that controller by the
\* state handed out and nothing else: the store, the listener sets and the
\* local states of the other controllers are unchanged, no store call is
\* made, and the listeners still to be called lose exactly this one. At
\* every point of the loop a controller subscribed to the key when the
\* store call was made has received the state once if it was already
\* called and not yet otherwise, and no other controller has received
\* anything. Every loop that has started ends.
C30_MirrorStep ==
    \A c \in Ctrl :
        syncState(c)
            => /\ globalStore' = globalStore
               /\ listeners' = listeners
               /\ storeOps' = storeOps
               /\ lastStoreCall' = lastStoreCall
               /\ localState'[c] = notifying.state
               /\ \A d \in Ctrl \ {c} : localState'[d] = localState[d]
               /\ ~isSyncingRef'[c]
               /\ notifying'.subs = notifying.subs
               /\ notifying'.todo = notifying.todo \ {c}
               /\ notifying'.todo # notifying.todo

C30_OncePerSubscriber ==
    notifying.active
        => \A l \in Ctrl :
            calls[l] = IF l \in notifying.subs \ notifying.todo
                       THEN Append(notifying.before[l], notifying.state)
                       ELSE notifying.before[l]

C30_FanOutTerminates == notifying.active ~> ~notifying.active

C30_MirroringDoesNotRepublish ==
    /\ [][C30_MirrorStep]_vars
    /\ []C30_OncePerSubscriber
    /\ C30_FanOutTerminates

\* C30 witness: two controllers are subscribed to a key, the second store
\* call on it has called both listeners, each of them has received exactly
\* the two states, and both local states and the entry hold the last one
C30_Witness ==
    /\ notifying.active
    /\ notifying.subs = Ctrl
    /\ notifying.todo = {}
    /\ storeOps = 2
    /\ \A c \in Ctrl :
            /\ Len(calls[c]) = 2
            /\ calls[c][2] = notifying.state
            /\ localState[c] = notifying.state
    /\ notifying.state.data = 5
    /\ HasState(globalStore, notifying.key)
    /\ AsyncOf(globalStore[notifying.key]) = notifying.state

\* the keys under which the listener of controller c is registered
SubscribedUnder(c) == {k \in DOMAIN listeners : c \in listeners[k]}

\* C31: subscription follows the resolved key. In every state the resolved
\* key of a controller is the string resolved from its options.taskKey; a
\* mounted controller with a resolved key is subscribed under exactly that
\* string, one without a key and one that is not mounted (not yet, or no
\* longer) under no key, and no listener set is registered under the
\* placeholder "__dynamic__". A render that changes the resolved key from
\* K1 to K2 removes the listener from K1 and registers it under K2. A step
\* of a controller that writes a key (execute and reset: its resolved key,
\* a settling invocation: the key of the invocation) changes the local
\* state of no other controller that resolves a different key.
C31_SubscribedUnderResolvedKey ==
    /\ "__dynamic__" \notin DOMAIN listeners
    /\ \A c \in Ctrl :
        /\ resolvedTaskKey[c] = ResolveKey(taskKey[c])
        /\ SubscribedUnder(c) =
                IF phase[c] = "mounted" /\ resolvedTaskKey[c] # NoKey
                THEN {resolvedTaskKey[c]}
                ELSE {}

C31_RekeyStep ==
    \A c \in Ctrl, tk \in RekeyOpts :
        (SetTaskKey(c, tk) /\ resolvedTaskKey'[c] # resolvedTaskKey[c])
            => /\ resolvedTaskKey[c] # NoKey
                    => \/ resolvedTaskKey[c] \notin DOMAIN listeners'
                       \/ c \notin listeners'[resolvedTaskKey[c]]
               /\ resolvedTaskKey'[c] # NoKey
                    => /\ resolvedTaskKey'[c] \in DOMAIN listeners'
                       /\ c \in listeners'[resolvedTaskKey'[c]]
               /\ \A d \in Ctrl \ {c} :
                    SubscribedUnder(d)' = SubscribedUnder(d)

C31_NoForeignNotification ==
    \A c \in Ctrl, d \in Ctrl :
        /\ (c # d /\ resolvedTaskKey[d] # resolvedTaskKey[c]
              /\ ((\E a \in ArgVals : Execute(c, a)) \/ Reset(c) \/ Cancel(c)))
                => localState'[d] = localState[d]
        /\ \A g \in 1 .. MaxOps :
            (c # d /\ (\E ok \in BOOLEAN : Settle(c, g, ok))
              /\ resolvedTaskKey[d] # invs[<<c, g>>].key)
                => localState'[d] = localState[d]

C31_SubscriptionFollowsKey ==
    /\ []C31_SubscribedUnderResolvedKey
    /\ [][C31_RekeyStep]_vars
    /\ [][C31_NoForeignNotification]_vars

\* C31 witness: a controller mounted with the key function and executed,
\* then rendered with the key "K1" on which the other controller is
\* mounted: it is subscribed under "K1" only, the entry of the function's
\* key is still loading, and the other controller has seen none of it
C31_Witness ==
    \E c \in Ctrl, d \in Ctrl :
        /\ c # d
        /\ phase[c] = "mounted" /\ phase[d] = "mounted"
        /\ taskKey[c] = "K1" /\ taskKey[d] = "K1"
        /\ renders = 1
        /\ InFlight(<<c, 1>>) /\ invs[<<c, 1>>].key = KeyFn(Undef)
        /\ SubscribedUnder(c) = {"K1"}
        /\ listeners["K1"] = {c, d}
        /\ HasState(globalStore, KeyFn(Undef))
        /\ globalStore[KeyFn(Undef)].loading
        /\ ~localState[d].loading

\* the string the key function of controller c gives for the arguments of
\* its last execute call
KeyOfLastArgs(c) == KeyFn(lastArgsRef[c])

\* C31 (as claimed, for keys given as a function of the arguments): a
\* mounted controller that has executed with arguments a is subscribed
\* under exactly the string its key function gives for a, and a step of a
\* controller (execute, settle, reset) changes the local state of no other
\* controller whose key function gives a different string for its own
\* arguments.
C31_SubscribedUnderKeyOfArgs ==
    \A c \in Ctrl :
        (/\ phase[c] = "mounted"
         /\ taskKey[c] = KeyFunction
         /\ lastArgsRef[c] \in KeyArgs)
            => SubscribedUnder(c) = {KeyOfLastArgs(c)}

C31_NoCrossNotification ==
    \A c \in Ctrl, d \in Ctrl :
        (/\ c # d
         /\ taskKey[c] = KeyFunction /\ taskKey[d] = KeyFunction
         /\ lastArgsRef'[c] \in KeyArgs /\ lastArgsRef[d] \in KeyArgs
         /\ KeyFn(lastArgsRef'[c]) # KeyOfLastArgs(d)
         /\ \/ \E a \in KeyArgs : Execute(c, a)
            \/ \E g \in 1 .. MaxOps, ok \in BOOLEAN : Settle(c, g, ok))
            => localState'[d] = localState[d]

C31_Claim_SubscriptionFollowsKey ==
    []C31_SubscribedUnderKeyOfArgs /\ [][C31_NoCrossNotification]_vars

\* the local state of controller c after it has subscribed under key
PulledState(c, key) ==
    IF key # NoKey /\ HasState(globalStore, key)
    THEN AsyncOf(globalStore[key])
    ELSE localState[c]

\* C32: the entry is pulled at subscription time. When a controller mounts,
\* and when a render changes its resolved key, its local state becomes the
\* AsyncState of the store entry of the (new) key if there is one and is
\* left as it was if there is none or if there is no key; the step neither
\* writes the store nor changes the local state of another controller.
C32_SubscribeStep ==
    \A c \in Ctrl :
        /\ Mount(c)
            => /\ localState'[c] = PulledState(c, resolvedTaskKey[c])
               /\ \A d \in Ctrl \ {c} : localState'[d] = localState[d]
               /\ globalStore' = globalStore
        /\ \A tk \in RekeyOpts :
            (SetTaskKey(c, tk) /\ resolvedTaskKey'[c] # resolvedTaskKey[c])
                => /\ localState'[c] = PulledState(c, resolvedTaskKey'[c])
                   /\ \A d \in Ctrl \ {c} : localState'[d] = localState[d]
                   /\ globalStore' = globalStore

C32_PullOnSubscribe == [][C32_SubscribeStep]_vars

\* C32 witness: a controller that never executed has pulled the result of
\* the other controller from the entry of "K1" and was then rendered with
\* the key function, whose key has no entry: it still shows that result
C32_Witness ==
    \E c \in Ctrl, d \in Ctrl :
        /\ c # d
        /\ phase[c] = "mounted"
        /\ requestIdRef[c] = 0
        /\ taskKey[c] = KeyFunction
        /\ renders = 1
        /\ ~HasState(globalStore, KeyFn(Undef))
        /\ SubscribedUnder(c) = {KeyFn(Undef)}
        /\ localState[c].data = ResultOf(d, 1)
        /\ HasState(globalStore, "K1")
        /\ localState[c] = AsyncOf(globalStore["K1"])

\* the mounted controllers that resolve key
SharersOf(key) ==
    {d \in Ctrl : phase[d] = "mounted" /\ resolvedTaskKey[d] = key}

\* C33: last writer wins across instances. When an invocation of a keyed
\* controller that is not stale (controller mounted, own generation
\* current, signal not aborted) reaches a terminal result, that result
\* replaces the store entry of the key, tagged with the generation of the
\* invocation, whatever entry another controller wrote before and whatever
\* generation that entry carries, and it becomes the local state of every
\* mounted controller of the key. Hence with two such invocations in
\* flight the entry and the local states end as the outcome of the one
\* that settles last.
C33_TerminalCommitStep ==
    \A c \in Ctrl, g \in 1 .. MaxOps, ok \in BOOLEAN :
        LET id == <<c, g>>
            key == invs[id].key
        IN
        (/\ Settle(c, g, ok)
         /\ ~Expired(c, g)
         /\ key # NoKey
         /\ ok \/ ~ShouldRetry(invs[id].retryCount))
            => /\ HasState(globalStore', key)
               /\ globalStore'[key].requestId = g
               /\ globalStore'[key].loading = FALSE
               /\ ok => /\ globalStore'[key].data = ResultOf(c, g)
                         /\ globalStore'[key].error = Null
               /\ ~ok => globalStore'[key].error =
                              ErrorOf(c, g, invs[id].retryCount)
               /\ \A d \in SharersOf(key) :
                    localState'[d] = AsyncOf(globalStore'[key])

C33_LastWriterWins == [][C33_TerminalCommitStep]_vars

\* C33 witness: on a shared key one controller is at generation 2 and its
\* invocation has succeeded, the invocation of generation 1 of the other
\* controller has succeeded after it, and the entry and both local states
\* hold the result of the latter, tagged with generation 1
C33_Witness ==
    \E c \in Ctrl, d \in Ctrl :
        LET key == resolvedTaskKey[c] IN
        /\ c # d
        /\ key # NoKey /\ resolvedTaskKey[d] = key
        /\ phase[c] = "mounted" /\ phase[d] = "mounted"
        /\ <<d, 2>> \in DOMAIN invs /\ invs[<<d, 2>>].outcome = "success"
        /\ <<c, 1>> \in DOMAIN invs /\ invs[<<c, 1>>].outcome = "success"
        /\ HasState(globalStore, key)
        /\ globalStore[key].requestId = 1
        /\ globalStore[key].data = ResultOf(c, 1)
        /\ localState[c].data = ResultOf(c, 1)
        /\ localState[d].data = ResultOf(c, 1)

\* the step is a call on controller c that allocates a generation: an
\* execute that misses the cache, cancel() or reset()
Allocates(c) ==
    \/ (\E a \in ArgVals : Execute(c, a)) /\ lastCall'[c].op = "miss"
    \/ Cancel(c)
    \/ Reset(c)

\* C34: the request generation. It is 0 until the controller is mounted
\* and never decreases: a step increases it by exactly one if it is an
\* execute that misses the cache, a cancel() or a reset() of the
\* controller, and leaves it unchanged otherwise (cache hits, retries,
\* settlings, notifications from other controllers, mount, unmount). The
\* generation of every invocation in flight is at most the current one of
\* its controller, and at most one invocation in flight carries the
\* current one.
C34_GenerationStep ==
    \A c \in Ctrl :
        requestIdRef'[c] =
            IF Allocates(c) THEN requestIdRef[c] + 1 ELSE requestIdRef[c]

C34_GenerationBounds ==
    \A c \in Ctrl :
        /\ requestIdRef[c] >= 0
        /\ phase[c] = "new" => requestIdRef[c] = 0
        /\ \A id \in InvOf(c) : id[2] \in 1 .. requestIdRef[c]
        /\ Cardinality({id \in InvOf(c) :
                InFlight(id) /\ id[2] = requestIdRef[c]}) <= 1
        /\ \A id \in InvOf(c) :
                (InFlight(id) /\ id[2] = requestIdRef[c])
                    => ~invs[id].cancelled

C34_GenerationMonotone ==
    [][C34_GenerationStep]_vars /\ []C34_GenerationBounds

\* C34 witness: a controller executed, reset and executed again, and the
\* action of the second call has failed once and is being retried:
\* generation 2 was used up by the reset, the generation is 3 also after
\* the retry, and the invocations 1 and 3 exist, the first still in flight
C34_Witness ==
    \E c \in Ctrl :
        /\ requestIdRef[c] = 3
        /\ resetAt[c] = 2
        /\ InFlight(<<c, 1>>)
        /\ <<c, 2>> \notin DOMAIN invs
        /\ <<c, 3>> \in DOMAIN invs
        /\ invs[<<c, 3>>].retryCount = 1

\* cancel() or reset() was called on the invocation, a later execute of its
\* controller superseded it, or its controller has unmounted
Interfered(id) ==
    invs[id].cancelled \/ Superseded(id) \/ unmountedRef[id[1]]

\* C35: termination. If every call of the action settles, every execute
\* call completes; the action is called at most maxRetries + 1 times for
\* it; and when the action of a call settles for the last time on which
\* no cancel, reset, unmount or newer execute of its controller has
\* occurred, the call ends as a success or as a failure (it is not
\* discarded) and the controller then shows loading = false with the
\* result as data (success) or with the last error as error (failure,
\* which happens only with all maxRetries retries used).
C35_EveryCallCompletes ==
    \A id \in LiveCtrl \X (1 .. MaxOps) :
        InFlight(id) ~> (id \in DOMAIN invs /\ invs[id].status = "done")

C35_CallsBounded ==
    \A id \in DOMAIN invs :
        InFlight(id) => invs[id].calls \in 1 .. maxRetries + 1

C35_CompletionStep ==
    \A id \in DOMAIN invs :
        LET c == id[1] g == id[2] IN
        (/\ InFlight(id)
         /\ ~Interfered(id)
         /\ \E ok \in BOOLEAN : Settle(c, g, ok)
         /\ invs'[id].status = "done")
            => /\ invs'[id].outcome \in {"success", "failure"}
               /\ localState'[c].loading = FALSE
               /\ invs'[id].outcome = "success"
                    => localState'[c].data = ResultOf(c, g)
               /\ invs'[id].outcome = "failure"
                    => /\ invs[id].calls = maxRetries + 1
                       /\ localState'[c].error =
                            ErrorOf(c, g, invs[id].retryCount)

C35_Termination ==
    /\ C35_EveryCallCompletes
    /\ []C35_CallsBounded
    /\ [][C35_CompletionStep]_vars

\* C35 witness: with two retries configured, an execute call on which
\* nothing interfered has completed as a failure, and the controller shows
\* loading = false, the error of the third call of the action and
\* retryCount 2
C35_Witness ==
    \E c \in Ctrl :
        /\ maxRetries = 2
        /\ requestIdRef[c] = 1
        /\ phase[c] = "mounted"
        /\ <<c, 1>> \in DOMAIN invs
        /\ invs[<<c, 1>>].outcome = "failure"
        /\ ~invs[<<c, 1>>].cancelled
        /\ ~localState[c].loading
        /\ localState[c].error = ErrorOf(c, 1, 2)
        /\ localState[c].retryCount = 2

\* the timeouts of controller c that are armed
ArmedOf(c) == {t \in timers : t[1] = c}

\* the invocation id was started by who ("immediate" or "poll")
StartedBy(id, who) == id \in DOMAIN startedBy /\ startedBy[id] = who

\* C36: polling continues after failure. When an execute started by
\* poll() completes on a mounted controller with polling enabled, as a
\* success or as a failure with the retries used up, the step arms exactly
\* one new timeout for the controller; a step that retries arms none; the
\* execute that a firing timeout starts is called with the arguments of
\* the last execute (none if there was no call with arguments); and no
\* timeout of the controller is armed while an execute that poll()
\* started is current and in flight, retries included.
C36_RearmStep ==
    \A c \in Ctrl, g \in 1 .. MaxOps :
        LET id == <<c, g>> IN
        (/\ \E ok \in BOOLEAN : Settle(c, g, ok)
         /\ StartedBy(id, "poll")
         /\ phase[c] = "mounted" /\ PollingEnabled(c))
            => IF invs'[id].status = "done"
               THEN /\ invs'[id].outcome \in {"success", "failure", "discarded"}
                    /\ Cardinality(ArmedOf(c)' \ ArmedOf(c)) = 1
                    /\ ArmedOf(c) \subseteq ArmedOf(c)'
                    /\ <<c, pollingTimerRef'[c]>> \in ArmedOf(c)' \ ArmedOf(c)
               ELSE timers' = timers

C36_PollArgsStep ==
    \A c \in Ctrl, h \in TimerIds :
        (FireTimer(c, h) /\ ~unmountedRef[c])
            => /\ lastArgsRef'[c] =
                    IF lastArgsRef[c] = Null THEN NoArgs ELSE lastArgsRef[c]
               /\ <<c, h>> \notin timers'
               /\ <<c, requestIdRef'[c]>> \in DOMAIN invs'
               /\ invs'[<<c, requestIdRef'[c]>>].status = "pending"
               /\ invs'[<<c, requestIdRef'[c]>>].args = lastArgsRef'[c]

C36_NoTimerDuringPollCycle ==
    \A c \in Ctrl :
        LET id == <<c, requestIdRef[c]>> IN
        (InFlight(id) /\ StartedBy(id, "poll") /\ ~invs[id].cancelled)
            => ArmedOf(c) = {}

C36_PollingContinues ==
    /\ [][C36_RearmStep]_vars
    /\ [][C36_PollArgsStep]_vars
    /\ []C36_NoTimerDuringPollCycle

\* C36 witness: the execute started by the first poll() of the polling
\* controller has failed after its retry, the controller shows the error
\* of the second attempt, and the next timeout is armed
C36_Witness ==
    /\ phase[1] = "mounted" /\ PollingEnabled(1)
    /\ StartedBy(<<1, 2>>, "poll")
    /\ invs[<<1, 2>>].outcome = "failure"
    /\ requestIdRef[1] = 2
    /\ localState[1].error = ErrorOf(1, 2, 1)
    /\ ~localState[1].loading
    /\ ArmedOf(1) = {<<1, pollingTimerRef[1]>>}

\* C37 (as claimed): shared view. Whenever none of the mounted controllers
\* that resolve a key has an invocation in flight, each of them has as its
\* local state the AsyncState of the store entry of the key, or the
\* initial state if the key has no entry (so their local states are
\* identical).
C37_Claim_SharedView ==
    \A key \in Keys :
        (\A c \in SharersOf(key) : \A id \in InvOf(c) : ~InFlight(id))
            => \A c \in SharersOf(key) :
                localState[c] = IF HasState(globalStore, key)
                                THEN AsyncOf(globalStore[key])
                                ELSE InitialAsyncState

\* C38 (as claimed): no stuck loading flag in the store. Whenever the
\* entry of a key has loading = true, an invocation made under that key is
\* in flight on which no cancel or reset was called, which no later
\* execute of its controller superseded and whose controller has not
\* unmounted (so that it will commit a terminal state).
C38_Claim_NoStuckLoading ==
    \A key \in DOMAIN globalStore :
        globalStore[key].loading = TRUE
            => \E id \in DOMAIN invs :
                /\ InFlight(id)
                /\ invs[id].key = key
                /\ ~Interfered(id)

\* cancel() has been called on controller c: one of its generations was
\* allocated without an invocation (with cacheTime 0 and no reset, only
\* cancel does that)
CancelCalled(c) ==
    \E g \in 1 .. requestIdRef[c] : <<c, g>> \notin DOMAIN invs

\* C39 (as claimed): cancel() stops polling. With the polling options left
\* as they are, cancel() leaves no timeout of the controller armed, and
\* from then on no timeout of the controller is armed and no execute is
\* started by poll().
C39_CancelStep ==
    \A c \in Ctrl : Cancel(c) => ArmedOf(c)' = {}

C39_NoTimerAfterCancel ==
    \A c \in Ctrl : CancelCalled(c) => ArmedOf(c) = {}

C39_NoPollAfterCancel ==
    \A c \in Ctrl, h \in TimerIds :
        (CancelCalled(c) /\ FireTimer(c, h)) => requestIdRef'[c] = requestIdRef[c]

C39_Claim_CancelStopsPolling ==
    /\ [][C39_CancelStep]_vars
    /\ []C39_NoTimerAfterCancel
    /\ [][C39_NoPollAfterCancel]_vars

\* C40 (as claimed): an unmounted controller never writes the store. A
\* step of a controller that has unmounted (the settling of one of its
\* invocations, or execute, cancel or reset called on it) leaves the store
\* as it is and changes the local state of no other controller.
C40_UnmountedStep ==
    \A c \in Ctrl :
        (/\ phase[c] = "unmounted"
         /\ \/ \E g \in 1 .. MaxOps, ok \in BOOLEAN : Settle(c, g, ok)
            \/ \E a \in ArgVals : LateExecute(c, a)
            \/ LateCancel(c)
            \/ LateReset(c))
            => /\ globalStore' = globalStore
               /\ \A d \in Ctrl \ {c} : localState'[d] = localState[d]

C40_Claim_UnmountedNeverWrites == [][C40_UnmountedStep]_vars

============================================================================
